---- MODULE Spec2Model ----
(***************************************************************************)
(* Gameplay layer of StationIapetus: bot target acquisition and path       *)
(* planning (src/src/bot/mod.rs), the level's actor bookkeeping            *)
(* (src/src/level.rs) and the player's weapon switching                    *)
(* (src/src/player/mod.rs).                                                *)
(*                                                                         *)
(* The world is a line of cells 0..MaxPos, one cell per world unit.  Time  *)
(* is counted in tenths of a simulated second.                             *)
(***************************************************************************)
EXTENDS Integers, Sequences, FiniteSets, TLC

(***************************************************************************)
(* Bounds of the model.                                                    *)
(***************************************************************************)
NumBots == 2
MaxPos == 2
MaxHealth == 2
MaxTime == 20
MaxWeapons == 4
MaxEvents == 2
MaxAmmo == 2
NumSpawnPoints == 2
MaxStock == 2

(***************************************************************************)
(* Program constants.                                                      *)
(***************************************************************************)
NONE == 0
F32Max == 2147483647
FrustumFar == 20
RebuildInterval == 10
NeverRebuilt == -100
Origin == 0                 \* Vector3::default(), the cell of the origin
RestorationTime == 8        \* 0.8 s
AttackCooldown == 3         \* 0.3 s
JumpImpulse == 30           \* 3.0 units per second
ItemAmmo == 200             \* the rounds a weapon or ammo item adds
U32Max == 2147483647        \* u32::MAX; the largest integer of the model stands for it

Bots == 1..NumBots
PlayerActor == NumBots + 1
Handles == 1..(NumBots + 1)
Slots == 1..MaxStock
Cells == 0..MaxPos
Looks == {-1, 1}
DamageAmounts == 1..MaxHealth
HealthValues == (1 - MaxHealth)..MaxHealth
WallMaps == {{}, {MaxPos - 1}}
Deltas == {5, 10}

Free == [kind |-> "Free"]
NoTarget == [handle |-> NONE]

VARIABLES
    actors,     \* Level.actors: handle -> Free or [kind, pos, health]
    player,     \* Level.player
    walls,      \* static triangle-mesh colliders: k is a wall between cell k and k+1
    target,     \* Bot.target of every bot
    frustum,    \* Bot.frustum of every bot
    path,                       \* Bot.path of every bot
    current_path_point,         \* Bot.current_path_point of every bot
    last_path_rebuild_time,     \* Bot.last_path_rebuild_time of every bot
    elapsed,    \* GameTime.elapsed
    navmesh,    \* the navigation mesh behind Level.navmesh
    weapons_len,                \* Character.weapons.len() of the player
    current_weapon,             \* Character.current_weapon of the player
    weapon_change_direction,    \* Player.weapon_change_direction
    grab_animation,             \* the clip behind UpperBodyMachine.grab_animation
    put_back_animation,         \* the clip behind UpperBodyMachine.put_back_animation
    kind,                       \* Bot.kind of the bot under study
    last_health,                \* Bot.last_health
    restoration_time,           \* Bot.restoration_time
    attack_timeout,             \* Bot.attack_timeout
    move_target,                \* Bot.move_target
    linvel,                     \* horizontal linear velocity of the bot's body
    attack_animation,           \* the clip behind UpperBodyMachine.attack_animation
    dying_animation,            \* the dying clips of the upper and the lower machine
    walk_animation,             \* the clip behind LowerBodyMachine.walk_animation
    upper_body_machine,         \* active state of Bot.upper_body_machine
    lower_body_machine,         \* active state of Bot.lower_body_machine
    bot_weapons,                \* ammo of the weapons in Character.weapons of the bot
    bot_current_weapon,         \* Character.current_weapon of the bot
    yaw,                        \* Bot.yaw: the angle and the target of the SmoothAngle
    pitch,                      \* Bot.pitch
    spawn_points,               \* Level.spawn_points
    jump_animation,             \* the clip behind the player's LowerBodyMachine.jump_animation
    locomotion,                 \* active state and transition of the player's lower machine
    linvel_y,                   \* vertical linear velocity of the player's body
    weapons,                    \* Level.weapons: slot -> Free or [kind, owner, ammo]
    items,                      \* Level.items: slot -> Free or [kind]
    projectiles,                \* Level.projectiles: slot -> Free or [owner]
    character_weapons,          \* Character.weapons of every actor
    visitor,    \* the regions a writing Visitor holds
    restored,   \* what a reading Visitor made of them
    asked,      \* observation: the time of the latest navmesh query, if any
    last        \* observation: the operation of the last step and what it found

levelVars == <<actors, player, walls, target, frustum>>
planVars == <<path, current_path_point, last_path_rebuild_time>>
weaponVars == <<weapons_len, current_weapon, weapon_change_direction,
                grab_animation, put_back_animation>>
botVars == <<kind, last_health, restoration_time, attack_timeout, move_target, linvel,
             attack_animation, dying_animation, walk_animation,
             upper_body_machine, lower_body_machine>>
saveVars == <<visitor, restored>>
armsVars == <<bot_weapons, bot_current_weapon>>
aimVars == <<yaw, pitch>>
jumpVars == <<jump_animation, locomotion, linvel_y>>
\* what the bot carries and aims with, the spawn points, the player's jump and
\* the level's weapons, items and projectiles
stockVars == <<weapons, items, projectiles, character_weapons>>
restVars == <<armsVars, aimVars, spawn_points, jumpVars, stockVars>>
vars == <<levelVars, planVars, elapsed, navmesh, weaponVars, botVars, saveVars, restVars,
          asked, last>>

Quiet == [op |-> "none"]

Contains(h) == h \in Handles /\ actors[h] # Free
IsBot(h) == Contains(h) /\ actors[h].kind = "Bot"

Min(a, b) == IF a < b THEN a ELSE b
Max(a, b) == IF a < b THEN b ELSE a

(***************************************************************************)
(* The candidate list handed to Bot::update: one descriptor per actor of   *)
(* the container, in pool order, the bot itself included.                  *)
(***************************************************************************)
RECURSIVE DescriptorsFrom(_)
DescriptorsFrom(h) ==
    IF h > NumBots + 1 THEN <<>>
    ELSE (IF Contains(h)
          THEN <<[handle |-> h, health |-> actors[h].health, position |-> actors[h].pos]>>
          ELSE <<>>) \o DescriptorsFrom(h + 1)

TargetDescriptors == DescriptorsFrom(1)

(***************************************************************************)
(* Frustum::is_contains_point on the line: a point is inside when it lies  *)
(* in front of the eye, beyond the near plane and within the far plane.    *)
(***************************************************************************)
IsContainsPoint(f, p) ==
    LET depth == (p - f.pos) * f.look
    IN  depth > 0 /\ depth <= FrustumFar

DefaultFrustum == [pos |-> 0, look |-> 1]

UpdateFrustum(position, look) == [pos |-> position, look |-> look]

(***************************************************************************)
(* Physics::cast_ray from `from` over the segment to `to`: the colliders   *)
(* met, each a triangle mesh (a wall) or the capsule of an actor's body.   *)
(***************************************************************************)
CastRay(from, to) ==
    LET lo == Min(from, to)
        hi == Max(from, to)
    IN  {[trimesh |-> TRUE, body |-> NONE] : k \in {w \in walls : lo <= w /\ w < hi}}
        \cup {[trimesh |-> FALSE, body |-> h] :
                 h \in {x \in Handles : Contains(x) /\ lo <= actors[x].pos /\ actors[x].pos <= hi}}

SqrDistance(a, b) == (a - b) * (a - b)

\* 'hit_loop of select_target: a triangle mesh anywhere among the hits hides the target
BehindSomething(self, desc, position) ==
    \E hit \in CastRay(desc.position, position) : hit.trimesh

\* a target loop that does not look at the frustum
QualifiesAnywhere(self, frus, desc, position) ==
    /\ desc.handle # self
    /\ ~BehindSomething(self, desc, position)

\* the condition under which 'target_loop measures a candidate
Qualifies(self, frus, desc, position) ==
    /\ desc.handle # self
    /\ IsContainsPoint(frus, desc.position)
    /\ ~BehindSomething(self, desc, position)

\* 'target_loop of select_target from candidate i on
RECURSIVE TargetLoop(_, _, _, _, _, _, _)
TargetLoop(self, frus, targets, position, i, cur, closest_distance) ==
    IF i > Len(targets) THEN cur
    ELSE LET desc == targets[i]
             sqr_d == SqrDistance(position, desc.position)
         IN  IF Qualifies(self, frus, desc, position) /\ sqr_d < closest_distance
             THEN TargetLoop(self, frus, targets, position, i + 1,
                             [handle |-> desc.handle, position |-> desc.position], sqr_d)
             ELSE TargetLoop(self, frus, targets, position, i + 1, cur, closest_distance)

\* the descriptors that keep the held target: "Check if existing target is valid"
StillValid(self, cur, targets) ==
    {i \in 1..Len(targets) :
        /\ targets[i].handle # self
        /\ targets[i].handle = cur.handle
        /\ targets[i].health > 0}

FirstOf(S) == CHOOSE i \in S : \A j \in S : i <= j

\* Bot::select_target: the bot's target after the call
SelectTarget(self, cur, frus, targets, position) ==
    IF cur # NoTarget /\ StillValid(self, cur, targets) # {}
    THEN [handle |-> cur.handle,
          position |-> targets[FirstOf(StillValid(self, cur, targets))].position]
    ELSE TargetLoop(self, frus, targets, position, 1, cur, F32Max)

\* Bot::set_target
SetTarget(handle, position) == [handle |-> handle, position |-> position]

\* a removal that leaves the target alone
OnActorRemovedKeeps(cur, handle) == cur

\* Bot::on_actor_removed
OnActorRemoved(cur, handle) ==
    IF cur # NoTarget /\ cur.handle = handle THEN NoTarget ELSE cur

(***************************************************************************)
(* The navigation mesh: its vertices are cells of the line, neighbours      *)
(* being adjacent cells.                                                    *)
(***************************************************************************)
NoNavmesh == [present |-> FALSE, vertices |-> {}]
NavMaps == {NoNavmesh,
            [present |-> TRUE, vertices |-> {}],
            [present |-> TRUE, vertices |-> Cells]}

\* Navmesh::query_closest: the nearest vertex, the first one among equals, if any
QueryClosest(nav, p) ==
    IF nav.vertices = {} THEN <<>>
    ELSE <<CHOOSE v \in nav.vertices :
              \A u \in nav.vertices :
                 \/ SqrDistance(p, v) < SqrDistance(p, u)
                 \/ SqrDistance(p, v) = SqrDistance(p, u) /\ v <= u>>

\* the vertices from the goal back to the start, as the path finder lists them
RECURSIVE GoalFirst(_, _)
GoalFirst(from, to) ==
    IF to = from THEN <<from>>
    ELSE <<to>> \o GoalFirst(from, IF to < from THEN to + 1 ELSE to - 1)

\* Navmesh::build_path: a path written over the old one, or an error that leaves
\* the old path or has already emptied it
BuildPath(from, to, old) ==
    {[ok |-> TRUE, path |-> GoalFirst(from, to)],
     [ok |-> FALSE, path |-> old],
     [ok |-> FALSE, path |-> <<>>]}

Reverse(s) == [i \in 1..Len(s) |-> s[Len(s) + 1 - i]]

NoPlan == [path |-> <<>>, current_path_point |-> 0, last_path_rebuild_time |-> NeverRebuilt]

PlanOf(b) == [path |-> path[b],
              current_path_point |-> current_path_point[b],
              last_path_rebuild_time |-> last_path_rebuild_time[b]]

\* a cursor that steps past the last waypoint
AdvanceUnguarded(st, position) ==
    IF st.current_path_point < Len(st.path)
       /\ SqrDistance(st.path[st.current_path_point + 1], position) = 0
    THEN [st EXCEPT !.current_path_point = @ + 1]
    ELSE st

\* a cursor that returns to the first waypoint from the last one
AdvanceAround(st, position) ==
    IF st.current_path_point < Len(st.path)
       /\ SqrDistance(st.path[st.current_path_point + 1], position) = 0
    THEN [st EXCEPT !.current_path_point = IF @ < Len(st.path) - 1 THEN @ + 1 ELSE 0]
    ELSE st

\* Bot::update, the waypoint cursor: path.get(current_path_point) is the waypoint
\* st.path[current_path_point + 1]; within 0.75 of it is the same cell
Advance(st, position) ==
    IF st.current_path_point < Len(st.path)
       /\ SqrDistance(st.path[st.current_path_point + 1], position) = 0
       /\ st.current_path_point < Len(st.path) - 1
    THEN [st EXCEPT !.current_path_point = @ + 1]
    ELSE st

\* a gate that is always open
RebuildDueAlways(now, stamp) == TRUE

\* Bot::update, the gate of the re-plan
RebuildDue(now, stamp) == now - stamp >= RebuildInterval

\* rebuild_path gets as far as the navmesh queries
Queries(tgt) == tgt # NoTarget

\* rebuild_path gets as far as build_path
Reaches(nav, tgt, position) ==
    /\ tgt # NoTarget
    /\ QueryClosest(nav, position) # <<>>
    /\ QueryClosest(nav, tgt.position) # <<>>

\* the answers build_path may give to this call of rebuild_path
Answers(st, nav, tgt, position) ==
    IF Reaches(nav, tgt, position)
    THEN BuildPath(QueryClosest(nav, position)[1], QueryClosest(nav, tgt.position)[1], st.path)
    ELSE {[ok |-> FALSE, path |-> st.path]}

\* Bot::rebuild_path, build_path answering r
RebuildPath(st, nav, tgt, position, now, r) ==
    IF ~Reaches(nav, tgt, position) THEN st
    ELSE IF r.ok
         THEN [path |-> Reverse(r.path),
               current_path_point |-> 0,
               last_path_rebuild_time |-> now]
         ELSE [path |-> r.path,
               current_path_point |-> 0,
               last_path_rebuild_time |-> st.last_path_rebuild_time]

\* the target Bot::update works with once select_target has run
Selected(b) == SelectTarget(b, target[b], frustum[b], TargetDescriptors, actors[b].pos)

\* Bot::update calls rebuild_path
Replans(b) == RebuildDue(elapsed, last_path_rebuild_time[b]) /\ navmesh.present

\* the answers open to one Bot::update
UpdateAnswers(b) ==
    IF Replans(b)
    THEN Answers(Advance(PlanOf(b), actors[b].pos), navmesh, Selected(b), actors[b].pos)
    ELSE {[ok |-> FALSE, path |-> path[b]]}

\* the plan Bot::update leaves
PlanAfter(b, r) ==
    IF Replans(b)
    THEN RebuildPath(Advance(PlanOf(b), actors[b].pos), navmesh, Selected(b),
                     actors[b].pos, elapsed, r)
    ELSE Advance(PlanOf(b), actors[b].pos)

(***************************************************************************)
(* Bot::update: target, waypoint cursor, frustum and re-plan, the model    *)
(* under the bot looking along `look` and build_path answering r.          *)
(***************************************************************************)
BotUpdateWith(b, look, r) ==
    /\ IsBot(b)
    /\ r \in UpdateAnswers(b)
    /\ target' = [target EXCEPT ![b] = Selected(b)]
    /\ frustum' = [frustum EXCEPT ![b] = UpdateFrustum(actors[b].pos, look)]
    /\ path' = [path EXCEPT ![b] = PlanAfter(b, r).path]
    /\ current_path_point' =
          [current_path_point EXCEPT ![b] = PlanAfter(b, r).current_path_point]
    /\ last_path_rebuild_time' =
          [last_path_rebuild_time EXCEPT ![b] = PlanAfter(b, r).last_path_rebuild_time]
    /\ asked' = IF Replans(b) /\ Queries(Selected(b)) THEN <<elapsed>> ELSE asked
    /\ UNCHANGED <<actors, player, walls, navmesh, weaponVars>>

\* Bot::update as the level sees it: the timers, clips and machines of a bot
\* are followed for one bot, under SpecCombat
BotUpdate(b) ==
    /\ IsBot(b)
    /\ \E look \in Looks : \E r \in UpdateAnswers(b) : BotUpdateWith(b, look, r)
    /\ UNCHANGED <<elapsed, botVars, saveVars, restVars>>

\* ActorContainer::free: every bot is told, then the slot is released
FreeActor(actor) ==
    /\ target' = [b \in Bots |->
                    IF b = actor THEN NoTarget ELSE OnActorRemoved(target[b], actor)]
    /\ frustum' = [b \in Bots |-> IF b = actor THEN DefaultFrustum ELSE frustum[b]]
    /\ path' = [b \in Bots |-> IF b = actor THEN NoPlan.path ELSE path[b]]
    /\ current_path_point' =
          [b \in Bots |-> IF b = actor THEN NoPlan.current_path_point
                          ELSE current_path_point[b]]
    /\ last_path_rebuild_time' =
          [b \in Bots |-> IF b = actor THEN NoPlan.last_path_rebuild_time
                          ELSE last_path_rebuild_time[b]]
    /\ actors' = [actors EXCEPT ![actor] = Free]

WeaponKinds == {"M4", "Ak47", "PlasmaRifle"}
ItemKinds == {"Medkit", "Ak47", "PlasmaGun", "M4", "RocketLauncher",
              "Plasma", "Ak47Ammo", "M4Ammo"}

\* the level's pools as one value
Stock == [weapons |-> weapons, items |-> items, projectiles |-> projectiles,
          character_weapons |-> character_weapons]

\* Pool::spawn: the slot the new object gets
FirstFree(pool) == FirstOf({i \in DOMAIN pool : pool[i] = Free})
HasFree(pool, n) == Cardinality({i \in DOMAIN pool : pool[i] = Free}) >= n

\* a removal that leaves the projectiles their owner
KeepOwner(projs, weapon) == projs

\* Level::remove_weapon, the loop over the projectiles: those of the weapon lose
\* their owner
ResetOwner(projs, weapon) ==
    [p \in DOMAIN projs |->
        IF projs[p] # Free /\ projs[p].owner = weapon
        THEN [projs[p] EXCEPT !.owner = NONE]
        ELSE projs[p]]

\* Level::remove_weapon
RemoveWeapon(st, weapon) ==
    [st EXCEPT !.projectiles = ResetOwner(@, weapon),
               !.weapons = [@ EXCEPT ![weapon] = Free]]

\* Level::remove_actor, the item a weapon is dropped as
DroppedAs(weapon_kind) ==
    CASE weapon_kind = "M4" -> "M4"
      [] weapon_kind = "Ak47" -> "Ak47"
      [] weapon_kind = "PlasmaRifle" -> "PlasmaGun"

\* Level::spawn_item
SpawnItem(st, item_kind) ==
    [st EXCEPT !.items = [@ EXCEPT ![FirstFree(@)] = [kind |-> item_kind]]]

\* Level::remove_actor, the loop over the weapons of the actor: each is dropped
\* as an item and removed
RECURSIVE DropWeapons(_, _)
DropWeapons(st, ws) ==
    IF ws = <<>> THEN st
    ELSE DropWeapons(RemoveWeapon(SpawnItem(st, DroppedAs(st.weapons[Head(ws)].kind)),
                                  Head(ws)),
                     Tail(ws))

\* the pools once the actor is gone with its weapons
StockWithout(actor) ==
    [DropWeapons(Stock, character_weapons[actor])
        EXCEPT !.character_weapons = [@ EXCEPT ![actor] = <<>>]]

\* the pools take the value st
StockBecomes(st) ==
    /\ weapons' = st.weapons
    /\ items' = st.items
    /\ projectiles' = st.projectiles
    /\ character_weapons' = st.character_weapons

\* Level::remove_actor
RemoveActor(actor) ==
    /\ Contains(actor)
    /\ HasFree(items, Len(character_weapons[actor]))
    /\ StockBecomes(StockWithout(actor))
    /\ FreeActor(actor)
    /\ player' = IF player = actor THEN NONE ELSE player
    /\ UNCHANGED <<walls, elapsed, navmesh, weaponVars, botVars, saveVars, armsVars, aimVars,
                   spawn_points, jumpVars, asked>>

\* Character::damage
Damage(a, amount) == [a EXCEPT !.health = @ - amount]

\* Level::damage_actor
DamageActor(actor_handle, who, amount) ==
    /\ Contains(actor_handle)
    /\ who = NONE \/ Contains(who)
    /\ actors[actor_handle].health - amount >= 1 - MaxHealth
    /\ target' = IF IsBot(actor_handle) /\ who # NONE
                 THEN [target EXCEPT ![actor_handle] =
                          SetTarget(actor_handle, actors[who].pos)]
                 ELSE target
    /\ actors' = [actors EXCEPT ![actor_handle] = Damage(@, amount)]
    /\ UNCHANGED <<player, walls, frustum, planVars, elapsed, navmesh, weaponVars, botVars, saveVars, restVars,
                   asked>>

LevelInit ==
    /\ actors \in [Handles -> [kind : {"Bot", "Player"}, pos : Cells, health : {MaxHealth}]]
    /\ \A h \in Handles : actors[h].kind = (IF h = PlayerActor THEN "Player" ELSE "Bot")
    /\ player = PlayerActor
    /\ walls \in WallMaps
    /\ target = [b \in Bots |-> NoTarget]
    /\ frustum = [b \in Bots |-> DefaultFrustum]

\* the weapons spawn_player hands out
WeaponsToGive == <<"M4", "Ak47", "PlasmaRifle">>

Rewound == [enabled |-> TRUE, time |-> "start", events |-> 0]

\* the player as spawned, the clips at rest
WeaponInit ==
    /\ weapons_len = Len(WeaponsToGive)
    /\ current_weapon = 0
    /\ weapon_change_direction = "None"
    /\ grab_animation = Rewound
    /\ put_back_animation = Rewound

PlanInit ==
    /\ path = [b \in Bots |-> NoPlan.path]
    /\ current_path_point = [b \in Bots |-> NoPlan.current_path_point]
    /\ last_path_rebuild_time = [b \in Bots |-> NoPlan.last_path_rebuild_time]
    /\ elapsed = 0
    /\ asked = <<>>

\* an attack, dying or walk clip the engine has not started to play
AtRest == [enabled |-> FALSE, time |-> "start", events |-> 0]

\* the bot under study as Bot::new leaves it, its clips at rest
BotInit ==
    /\ kind = "Mutant"
    /\ last_health = MaxHealth
    /\ restoration_time = 0
    /\ attack_timeout = 0
    /\ move_target = Origin
    /\ linvel = 0
    /\ attack_animation = AtRest
    /\ dying_animation = [m \in {"upper", "lower"} |-> AtRest]
    /\ walk_animation = AtRest
    /\ upper_body_machine = "idle"
    /\ lower_body_machine = "idle"

\* Character::default: no weapons
Unarmed == bot_weapons = <<>> /\ bot_current_weapon = 0

\* SmoothAngle::default
AtZero == [angle |-> 0, target |-> 0]
AimInit == yaw = AtZero /\ pitch = AtZero

\* a level without spawn points
NoSpawnPoints == spawn_points = <<>>

\* a level without weapons, items and projectiles
NoStock ==
    /\ weapons = [w \in Slots |-> Free]
    /\ items = [i \in Slots |-> Free]
    /\ projectiles = [p \in Slots |-> Free]
    /\ character_weapons = [h \in Handles |-> <<>>]

\* the player standing: the jump clip not played, the body at rest
Standing == [state |-> "idle", transition |-> "none"]
JumpInit == jump_animation = Rewound /\ locomotion = Standing /\ linvel_y = 0

\* a Visitor nothing has been written to, a level nothing has been read into
Nothing == [written |-> FALSE]
NothingSaved == visitor = Nothing /\ restored = Nothing

\* a level whose scene has no navigation mesh
Init ==
    /\ LevelInit
    /\ PlanInit
    /\ BotInit
    /\ NothingSaved
    /\ Unarmed
    /\ AimInit
    /\ NoSpawnPoints
    /\ NoStock
    /\ JumpInit
    /\ WeaponInit
    /\ navmesh = NoNavmesh
    /\ last = Quiet

\* the bots that hold `actor` as their target
Holders(actor) == {b \in Bots \ {actor} : IsBot(b) /\ target[b].handle = actor}

Next ==
    \/ \E b \in Bots : BotUpdate(b) /\ last' = Quiet
    \/ \E a \in Handles :
          RemoveActor(a) /\ last' = [op |-> "remove", actor |-> a, holders |-> Holders(a)]
    \/ \E a \in Handles, w \in Handles \cup {NONE}, n \in DamageAmounts :
          DamageActor(a, w, n) /\ last' = Quiet

Spec == Init /\ [][Next]_vars

(***************************************************************************)
(* select_target on its own: one call on bot Subject from any held target, *)
(* frustum, map and candidates, each candidate dead (health 0) or in full  *)
(* health; `last` keeps what the call started from.                        *)
(***************************************************************************)
Subject == CHOOSE b \in Bots : \A c \in Bots : b <= c

SelectInit ==
    /\ actors \in [Handles -> {Free} \cup
                      [kind : {"Bot", "Player"}, pos : Cells, health : {0, MaxHealth}]]
    /\ \A h \in Handles :
          /\ h = Subject => actors[h] # Free /\ actors[h].health = MaxHealth
          /\ actors[h] # Free =>
                actors[h].kind = (IF h = PlayerActor THEN "Player" ELSE "Bot")
    /\ player = IF actors[PlayerActor] = Free THEN NONE ELSE PlayerActor
    /\ walls \in WallMaps
    /\ target \in [Bots -> {NoTarget} \cup [handle : Handles, position : Cells]]
    /\ \A b \in Bots \ {Subject} : target[b] = NoTarget
    /\ frustum \in [Bots -> [pos : Cells, look : Looks]]
    /\ \A b \in Bots \ {Subject} : frustum[b] = DefaultFrustum
    /\ PlanInit
    /\ BotInit
    /\ NothingSaved
    /\ Unarmed
    /\ AimInit
    /\ NoSpawnPoints
    /\ NoStock
    /\ JumpInit
    /\ WeaponInit
    /\ navmesh = NoNavmesh
    /\ last = Quiet

SelectCall ==
    /\ last = Quiet
    /\ BotUpdate(Subject)
    /\ last' = [op |-> "select", bot |-> Subject,
                held |-> target[Subject], view |-> frustum[Subject]]

SpecSelect == SelectInit /\ [][SelectCall]_vars

(***************************************************************************)
(* Path planning on its own: bot Subject and the player on a level with a  *)
(* navigation mesh, the clock running and the bodies moving; `last` keeps   *)
(* what each Bot::update started from and how far its re-plan got.         *)
(***************************************************************************)
PathInit ==
    /\ actors \in [Handles -> {Free} \cup
                      [kind : {"Bot", "Player"}, pos : Cells, health : {MaxHealth}]]
    /\ \A h \in Handles :
          /\ actors[h] # Free <=> h \in {Subject, PlayerActor}
          /\ actors[h] # Free =>
                actors[h].kind = (IF h = PlayerActor THEN "Player" ELSE "Bot")
    /\ player = PlayerActor
    /\ walls = {}
    /\ target = [b \in Bots |-> NoTarget]
    /\ frustum = [b \in Bots |-> DefaultFrustum]
    /\ PlanInit
    /\ BotInit
    /\ NothingSaved
    /\ Unarmed
    /\ AimInit
    /\ NoSpawnPoints
    /\ NoStock
    /\ JumpInit
    /\ WeaponInit
    /\ navmesh \in NavMaps
    /\ last = Quiet

\* GameTime.elapsed as the engine hands it to Level::update, dt later
Tick(dt) ==
    /\ elapsed + dt <= MaxTime
    /\ elapsed' = elapsed + dt
    /\ UNCHANGED <<levelVars, planVars, navmesh, weaponVars, botVars, saveVars, restVars, asked>>

\* the physics step carries a body to a neighbouring cell
MoveBody(h, d) ==
    /\ Contains(h)
    /\ actors[h].pos + d \in Cells
    /\ actors' = [actors EXCEPT ![h].pos = @ + d]
    /\ UNCHANGED <<player, walls, target, frustum, planVars, elapsed, navmesh, weaponVars,
                   botVars, saveVars, restVars, asked>>

PathUpdate ==
    /\ IsBot(Subject)
    /\ \E look \in Looks : \E r \in UpdateAnswers(Subject) :
       /\ BotUpdateWith(Subject, look, r)
       /\ UNCHANGED <<elapsed, botVars, saveVars, restVars>>
       /\ last' = [op |-> "update", bot |-> Subject,
                   start |-> PlanOf(Subject),
                   before |-> Advance(PlanOf(Subject), actors[Subject].pos),
                   tgt |-> Selected(Subject),
                   asked |-> asked,
                   queries |-> Replans(Subject) /\ Queries(Selected(Subject)),
                   reaches |-> Replans(Subject)
                                 /\ Reaches(navmesh, Selected(Subject), actors[Subject].pos),
                   ok |-> r.ok]

PathNext ==
    \/ PathUpdate
    \/ \E dt \in Deltas : Tick(dt) /\ last' = Quiet
    \/ \E h \in Handles, d \in Looks : MoveBody(h, d) /\ last' = Quiet
    \/ \E a \in Handles : RemoveActor(a) /\ last' = Quiet

SpecPath == PathInit /\ [][PathNext]_vars

(***************************************************************************)
(* The player's weapon switching.  A clip is enabled or not, is at its     *)
(* start or played past its signal, and holds the signals it has fired and *)
(* nobody has popped yet.                                                  *)
(***************************************************************************)
Directions == {"None", "Next", "Previous"}
Buttons == {"next_weapon", "prev_weapon", "jump"}
ElementStates == {"Pressed", "Released"}

\* Animation::rewind
Rewind(clip) == [clip EXCEPT !.time = "start"]

\* Animation::set_enabled
SetEnabled(clip, on) == [clip EXCEPT !.enabled = on]

\* Character::next_weapon
NextWeapon(cw, len) == IF cw < len - 1 THEN cw + 1 ELSE cw

\* Character::prev_weapon
PrevWeapon(cw, len) == IF cw > 0 THEN cw - 1 ELSE cw

\* a grab signal that leaves the request pending
OnGrabSignalKeeps(p, len) ==
    [p EXCEPT !.current_weapon =
                 CASE p.weapon_change_direction = "None" -> @
                   [] p.weapon_change_direction = "Next" -> NextWeapon(@, len)
                   [] p.weapon_change_direction = "Previous" -> PrevWeapon(@, len)]

\* Player::update, one GRAB_WEAPON_SIGNAL popped from the grab clip
OnGrabSignal(p, len) ==
    [current_weapon |->
        CASE p.weapon_change_direction = "None" -> p.current_weapon
          [] p.weapon_change_direction = "Next" -> NextWeapon(p.current_weapon, len)
          [] p.weapon_change_direction = "Previous" -> PrevWeapon(p.current_weapon, len),
     weapon_change_direction |-> "None"]

\* Player::update, the loop that pops the k signals the grab clip holds
RECURSIVE PopGrabEvents(_, _, _)
PopGrabEvents(p, len, k) ==
    IF k = 0 THEN p ELSE PopGrabEvents(OnGrabSignal(p, len), len, k - 1)

Switching == [current_weapon |-> current_weapon,
              weapon_change_direction |-> weapon_change_direction]

\* the active state and the active transition of the player's locomotion
\* machine
Locomotions ==
    [state : {"idle", "walk", "jump", "fall", "land"},
     transition : {"none", "idle_to_jump", "walk_to_jump", "jump_to_fall"}]

\* a jump signal that is honoured in every state of the machine
JumpHonoredAlways(m) == TRUE

\* Player::update, the guard of a JUMP_SIGNAL
JumpHonored(m) ==
    \/ m.transition = "idle_to_jump"
    \/ m.transition = "walk_to_jump"
    \/ m.state = "jump"

\* Player::update, the vertical velocity set_linvel writes: the impulse if a jump
\* signal was honoured, else what the body had
NewYVel(clip, m, old) ==
    IF clip.events > 0 /\ JumpHonored(m) THEN JumpImpulse ELSE old

\* Player::update, the jump: the locomotion machine is left as `m` by its apply,
\* the signals of the jump clip are popped, and the clip is rewound for a jump
\* pressed on the ground
JumpStep(m, ground, jump) ==
    /\ locomotion' = m
    /\ linvel_y' = NewYVel(jump_animation, m, linvel_y)
    /\ jump_animation' =
          IF ground /\ jump
          THEN Rewind([jump_animation EXCEPT !.events = 0])
          ELSE [jump_animation EXCEPT !.events = 0]

\* Player::update, the jump and the weapon switch: the jump clip's signals, the
\* grab clip's, then the put-back clip's
PlayerUpdate ==
    LET p == PopGrabEvents(Switching, weapons_len, grab_animation.events)
    IN  /\ \E m \in Locomotions, ground \in BOOLEAN, jump \in BOOLEAN :
              JumpStep(m, ground, jump)
        /\ current_weapon' = p.current_weapon
        /\ weapon_change_direction' = p.weapon_change_direction
        /\ grab_animation' =
              [SetEnabled(grab_animation,
                          put_back_animation.events > 0 \/ grab_animation.enabled)
                  EXCEPT !.events = 0]
        /\ put_back_animation' = [put_back_animation EXCEPT !.events = 0]
        /\ UNCHANGED <<weapons_len, levelVars, planVars, elapsed, navmesh, botVars, saveVars,
                       armsVars, aimVars, spawn_points, stockVars, asked>>

\* a next-weapon press that is always taken
NextAllowedAlways(cw, len) == TRUE

\* a - b in u32 where the subtraction wraps
WrappingSub(a, b) == IF a >= b THEN a - b ELSE U32Max - (b - a) + 1

\* weapons.len() as u32 - 1 overflows
Overflows(len) == len < 1

\* process_input_event, the guard of a next-weapon press in a build that does
\* not check the subtraction for overflow
NextAllowed(cw, len) == cw < WrappingSub(len, 1)

\* process_input_event, the guard of a prev-weapon press
PrevAllowed(cw) == cw > 0

\* Player::process_input_event for a button of the control scheme
ProcessInputEvent(button, state) ==
    /\ IF /\ state = "Pressed"
          /\ \/ button = "next_weapon" /\ NextAllowed(current_weapon, weapons_len)
             \/ button = "prev_weapon" /\ PrevAllowed(current_weapon)
       THEN /\ weapon_change_direction' =
                  (IF button = "next_weapon" THEN "Next" ELSE "Previous")
            /\ put_back_animation' = Rewind(put_back_animation)
            /\ grab_animation' = Rewind(SetEnabled(grab_animation, FALSE))
       ELSE UNCHANGED <<weapon_change_direction, put_back_animation, grab_animation>>
    /\ UNCHANGED <<weapons_len, current_weapon, levelVars, planVars, elapsed, navmesh,
                   botVars, saveVars, restVars, asked>>

\* the engine plays an enabled clip: past its signal, which it queues, or round
\* to its start again
Play(clip) ==
    IF clip.time = "start"
    THEN [clip EXCEPT !.time = "played", !.events = @ + 1]
    ELSE [clip EXCEPT !.time = "start"]

AnimateGrab ==
    /\ grab_animation.enabled
    /\ grab_animation.events < MaxEvents
    /\ grab_animation' = Play(grab_animation)
    /\ UNCHANGED <<weapons_len, current_weapon, weapon_change_direction,
                   put_back_animation, levelVars, planVars, elapsed, navmesh, botVars, saveVars, restVars,
                   asked>>

AnimatePutBack ==
    /\ put_back_animation.enabled
    /\ put_back_animation.events < MaxEvents
    /\ put_back_animation' = Play(put_back_animation)
    /\ UNCHANGED <<weapons_len, current_weapon, weapon_change_direction,
                   grab_animation, levelVars, planVars, elapsed, navmesh, botVars, saveVars, restVars,
                   asked>>

\* process_input_event for a next-weapon press in a build that checks the
\* subtraction for overflow: with no weapon the handler fails
InputOverflow ==
    /\ Overflows(weapons_len)
    /\ last.op # "overflow"
    /\ last' = [op |-> "overflow"]
    /\ UNCHANGED <<levelVars, planVars, elapsed, navmesh, weaponVars, botVars, saveVars,
                   restVars, asked>>

\* the player alone on the level, owning one of `lens` weapons
PlayerWith(lens) ==
    /\ actors = [h \in Handles |->
                    IF h = PlayerActor
                    THEN [kind |-> "Player", pos |-> 0, health |-> MaxHealth]
                    ELSE Free]
    /\ player = PlayerActor
    /\ walls = {}
    /\ target = [b \in Bots |-> NoTarget]
    /\ frustum = [b \in Bots |-> DefaultFrustum]
    /\ PlanInit
    /\ BotInit
    /\ NothingSaved
    /\ Unarmed
    /\ AimInit
    /\ NoSpawnPoints
    /\ NoStock
    /\ JumpInit
    /\ navmesh = NoNavmesh
    /\ weapons_len \in lens
    /\ current_weapon \in 0..Max(weapons_len - 1, 0)
    /\ weapon_change_direction = "None"
    /\ grab_animation \in {Rewound, SetEnabled(Rewound, FALSE)}
    /\ put_back_animation = Rewound
    /\ last = Quiet

\* the player with the weapons it spawned with or more
PlayerInit == PlayerWith(Len(WeaponsToGive)..MaxWeapons)

\* the player as Player::new leaves it, before a weapon is given, or with one
BareInit == PlayerWith({0, 1})

\* what a step of the player started from
Before(op) == [op |-> op,
               current_weapon |-> current_weapon,
               weapon_change_direction |-> weapon_change_direction,
               popped |-> op = "update" /\ grab_animation.events > 0,
               grab_enabled |-> grab_animation.enabled]

PlayerNext ==
    \/ PlayerUpdate /\ last' = Before("update")
    \/ \E button \in Buttons, state \in ElementStates :
          /\ ProcessInputEvent(button, state)
          /\ last' = [Before("input") EXCEPT
                         !.op = IF state = "Pressed" THEN button ELSE "input"]
    \/ AnimateGrab /\ last' = Before("animate")
    \/ AnimatePutBack /\ last' = Before("animate")

SpecPlayer == PlayerInit /\ [][PlayerNext]_vars

\* the player without weapons, in either build
BareNext ==
    \/ PlayerUpdate /\ last' = Before("update")
    \/ \E button \in Buttons, state \in ElementStates :
          /\ last.op # "overflow"
          /\ ProcessInputEvent(button, state)
          /\ last' = [Before("input") EXCEPT
                         !.op = IF state = "Pressed" THEN button ELSE "input"]
    \/ InputOverflow
    \/ AnimateGrab /\ last' = Before("animate")
    \/ AnimatePutBack /\ last' = Before("animate")

SpecBare == BareInit /\ [][BareNext]_vars

(***************************************************************************)
(* The player's jump.  Between two updates the engine plays the jump clip, *)
(* which queues its jump signal, and the physics step changes the vertical *)
(* velocity of the body.  `last` keeps the signals the update found, the   *)
(* machine it popped them under and the velocity it found.                 *)
(***************************************************************************)
VerticalSpeeds == {-10, 0}

\* the engine plays the jump clip: past its jump signal, which it queues, then to
\* its end
AnimateJump ==
    /\ jump_animation.enabled
    /\ jump_animation.time # "end"
    /\ jump_animation.events < MaxEvents
    /\ jump_animation' =
          IF jump_animation.time = "start"
          THEN [jump_animation EXCEPT !.time = "played", !.events = @ + 1]
          ELSE [jump_animation EXCEPT !.time = "end"]
    /\ last' = [op |-> "animate"]
    /\ UNCHANGED <<locomotion, linvel_y, levelVars, planVars, elapsed, navmesh, weaponVars,
                   botVars, saveVars, armsVars, aimVars, spawn_points, stockVars, asked>>

\* the physics step: gravity and the ground give the body its vertical velocity
StepPlayerBody ==
    /\ \E v \in VerticalSpeeds : linvel_y' = v
    /\ linvel_y' # linvel_y
    /\ last' = [op |-> "step"]
    /\ UNCHANGED <<jump_animation, locomotion, levelVars, planVars, elapsed, navmesh,
                   weaponVars, botVars, saveVars, armsVars, aimVars, spawn_points, stockVars, asked>>

JumpNext ==
    \/ /\ PlayerUpdate
       /\ last' = [op |-> "player", popped |-> jump_animation.events,
                   machine |-> locomotion', before |-> linvel_y]
    \/ AnimateJump
    \/ StepPlayerBody

SpecJump == PlayerInit /\ [][JumpNext]_vars

(***************************************************************************)
(* One bot in combat: bot Subject and the player on a level without a      *)
(* navigation mesh.  Level::update hands every frame its own time.delta to *)
(* Bot::update; between two frames the engine plays the clips, the level   *)
(* handles DamageActor and GiveItem messages and the physics step carries  *)
(* the bodies.  `last` keeps what the latest Bot::update found and sent.   *)
(* SpecAttack, SpecHealth and SpecSteps run the same Bot::update in three  *)
(* surroundings.                                                           *)
(***************************************************************************)
BotKinds == {"Mutant", "Parasite", "Zombie"}
Offsets == {-1, 0, 1}

\* definitions that let every kind use weapons
GetDefinitionArmed(k) ==
    CASE k = "Mutant" ->
            [walk_speed |-> 7, can_use_weapons |-> TRUE, attack_damage |-> 120,
             v_aim_angle_hack |-> 0]
      [] k = "Parasite" ->
            [walk_speed |-> 10, can_use_weapons |-> TRUE, attack_damage |-> 40,
             v_aim_angle_hack |-> 0]
      [] k = "Zombie" ->
            [walk_speed |-> 12, can_use_weapons |-> TRUE, attack_damage |-> 40,
             v_aim_angle_hack |-> 12]

\* Bot::get_definition: walk_speed in tenths of a unit per second
GetDefinition(k) ==
    CASE k = "Mutant" ->
            [walk_speed |-> 7, can_use_weapons |-> FALSE, attack_damage |-> 120,
             v_aim_angle_hack |-> 0]
      [] k = "Parasite" ->
            [walk_speed |-> 10, can_use_weapons |-> FALSE, attack_damage |-> 40,
             v_aim_angle_hack |-> 0]
      [] k = "Zombie" ->
            [walk_speed |-> 12, can_use_weapons |-> FALSE, attack_damage |-> 40,
             v_aim_angle_hack |-> 12]

\* Character::is_dead
IsDead(health) == health <= 0

\* Character::heal
Heal(a, amount) == [a EXCEPT !.health = Min(@ + amount, MaxHealth)]

\* Animation::has_ended
HasEnded(clip) == clip.time = "end"

\* Bot::update, in_close_combat: the target within 0.75 of the body is the
\* target in the body's cell
InCloseCombat(tgt, position) ==
    tgt # NoTarget /\ SqrDistance(tgt.position, position) = 0

\* Bot::update, move_target: the waypoint under the cursor if there is one
MoveTarget(st, old) ==
    IF st.current_path_point < Len(st.path)
    THEN st.path[st.current_path_point + 1]
    ELSE old

\* a health that differs counts as damage
WasDamagedOrHealed(health, before) == health # before

\* Bot::update, was_damaged
WasDamaged(health, before) == health < before

\* Bot::update, the restoration timer once the damage is seen
Restoration(health, before, timer) ==
    IF WasDamaged(health, before) THEN RestorationTime ELSE timer

\* Bot::update, is_moving: try_normalize gives no direction to the body's own cell
IsMoving(health, close, tgt, goal, position) ==
    ~IsDead(health) /\ ~close /\ tgt # NoTarget /\ goal # position

\* the direction of a displacement along the line
Sign(d) == IF d > 0 THEN 1 ELSE IF d < 0 THEN -1 ELSE 0

\* a velocity that is zeroed when there is no direction to move_target
VelocityOrStop(health, close, tgt, goal, position, k, old) ==
    IF ~IsDead(health) /\ ~close /\ tgt # NoTarget
    THEN Sign(goal - position) * GetDefinition(k).walk_speed
    ELSE 0

\* Bot::update, body.set_linvel: toward move_target at walk_speed, or none; the
\* velocity is left as it was when there is no direction to move_target
Velocity(health, close, tgt, goal, position, k, old) ==
    IF ~IsDead(health) /\ ~close /\ tgt # NoTarget
    THEN IF goal # position
         THEN Sign(goal - position) * GetDefinition(k).walk_speed
         ELSE old
    ELSE 0

\* a dead input that is never raised
DeadInputNever(health) == FALSE

\* Bot::update, the dead input of both machines
DeadInput(health) == health <= 0

\* Bot::update, LowerBodyMachineInput
LowerInput(moving, health) ==
    [walk |-> moving, scream |-> FALSE, dead |-> DeadInput(health)]

\* Bot::update, UpperBodyMachineInput
UpperInput(moving, health, close, timeout, k, can_aim) ==
    [attack |-> close /\ timeout <= 0,
     walk |-> moving,
     scream |-> FALSE,
     dead |-> DeadInput(health),
     aim |-> GetDefinition(k).can_use_weapons /\ can_aim]

LowerStates == {"idle", "walk", "scream", "dying"}
UpperStates == {"idle", "walk", "scream", "aim", "attack", "dying"}

\* LowerBodyMachine::apply: the first transition whose guard holds fires; the
\* death state is terminal
LowerApply(state, input) ==
    CASE state = "dying" -> "dying"
      [] input.dead -> "dying"
      [] input.scream -> "scream"
      [] input.walk -> "walk"
      [] OTHER -> "idle"

\* an action machine that leaves the death state as its inputs say
UpperApplyLeaves(state, input) ==
    CASE input.dead -> "dying"
      [] input.attack -> "attack"
      [] input.scream -> "scream"
      [] input.aim -> "aim"
      [] input.walk -> "walk"
      [] OTHER -> "idle"

\* UpperBodyMachine::apply: the first transition whose guard holds fires; the
\* death state is terminal
UpperApply(state, input) ==
    CASE state = "dying" -> "dying"
      [] input.dead -> "dying"
      [] input.attack -> "attack"
      [] input.scream -> "scream"
      [] input.aim -> "aim"
      [] input.walk -> "walk"
      [] OTHER -> "idle"

\* LowerBodyMachine::is_walking
IsWalking(state) == state = "walk"

\* Bot::can_shoot
CanShoot(state, k) == state = "aim" /\ GetDefinition(k).can_use_weapons

\* Bot::update, the death block: the dying clips of both machines
DyingOnDeath(clips, health) ==
    IF IsDead(health)
    THEN [m \in DOMAIN clips |-> SetEnabled(clips[m], TRUE)]
    ELSE clips

\* Bot::update, the death block: the attack clip
AttackOnDeath(clip, health) ==
    IF IsDead(health) THEN SetEnabled(clip, FALSE) ELSE clip

\* a hit signal counts wherever the target is
HitsAnywhere(clip, tgt, close) == IF tgt # NoTarget THEN clip.events ELSE 0

\* Bot::update, the melee loop: a DamageActor message for every HIT_SIGNAL popped
\* in close combat
Hits(clip, tgt, close) == IF tgt # NoTarget /\ close THEN clip.events ELSE 0

\* Bot::update, the melee loop: the DamageActor messages it sends, in order
DamageMessages(clip, tgt, close, k) ==
    [i \in 1..Hits(clip, tgt, close) |->
        [actor |-> tgt.handle, who |-> NONE,
         amount |-> GetDefinition(k).attack_damage]]

\* Bot::update, the melee loop: the signals it pops
PoppedFromAttack(clip, tgt) == IF tgt # NoTarget THEN clip.events ELSE 0

\* Bot::update, the melee loop empties the queue of the attack clip
PopAttackEvents(clip, tgt) == IF tgt # NoTarget THEN [clip EXCEPT !.events = 0] ELSE clip

\* a footstep for every step signal, on the ground or not
FootstepsAirborne(walking, clip, ground) == IF walking THEN clip.events ELSE 0

\* Bot::update, the footstep loop: a PlaySound message for every STEP_SIGNAL popped
\* with ground contact
Footsteps(walking, clip, ground) == IF walking /\ ground THEN clip.events ELSE 0

\* Bot::update, the footstep loop empties the queue of the walk clip
PopWalkEvents(walking, clip) == IF walking THEN [clip EXCEPT !.events = 0] ELSE clip

\* Character::current_weapon().is_some(): a weapon under the index
HasCurrentWeapon(cw, ws) == cw < Len(ws)

\* a loop that does not stop at the first weapon with ammo
RECURSIVE FirstLoadedNoBreak(_, _, _)
FirstLoadedNoBreak(ws, i, cw) ==
    IF i >= Len(ws) THEN cw
    ELSE FirstLoadedNoBreak(ws, i + 1, IF ws[i + 1] > 0 THEN i ELSE cw)

\* Bot::select_weapon, the loop over the owned weapons from index i on
RECURSIVE FirstLoaded(_, _, _)
FirstLoaded(ws, i, cw) ==
    IF i >= Len(ws) THEN cw
    ELSE IF ws[i + 1] > 0 THEN i
    ELSE FirstLoaded(ws, i + 1, cw)

\* Bot::select_weapon: the index of the current weapon after the call
SelectWeapon(cw, ws) ==
    IF HasCurrentWeapon(cw, ws) /\ ws[cw + 1] = 0
    THEN FirstLoaded(ws, 0, cw)
    ELSE cw

\* Bot::update, look_dir as <<x, z>>: the z axis without a target, else from the
\* body to the target; a target in the body's cell lies `off` of the body, at
\* the body's very position when off = 0
LookDir(tgt, position, off) ==
    IF tgt = NoTarget THEN <<0, 1>>
    ELSE IF tgt.position # position THEN <<Sign(tgt.position - position), 0>>
    ELSE <<off, 0>>

\* look_dir.x.atan2(look_dir.z), in degrees
Atan2(dir) ==
    CASE dir = <<1, 0>> -> 90
      [] dir = <<-1, 0>> -> -90
      [] OTHER -> 0

\* an aim step that a dead bot takes as well
AimsDead(health, dir) == dir # <<0, 0>>

\* an aim step that is taken whatever the direction
AimsAlways(health, dir) == ~IsDead(health)

\* Bot::update, the aim step is taken: the bot is alive and try_normalize gives
\* a direction
Aims(health, dir) == ~IsDead(health) /\ dir # <<0, 0>>

\* SmoothAngle::set_target(..).update(delta): a delta of half a second or more
\* carries the angle to its target
TurnTo(smooth, angle) == [smooth EXCEPT !.target = angle, !.angle = angle]

\* Bot::aim_horizontally
AimHorizontally(smooth, dir) == TurnTo(smooth, Atan2(dir))

\* Bot::aim_vertically: a direction along the ground has acos(dir.y) = 90 degrees
AimVertically(smooth, dir, k) == TurnTo(smooth, GetDefinition(k).v_aim_angle_hack)

\* Bot::update, the attack clip is started again
Restarts(clip, close, timeout) ==
    close /\ timeout <= 0 /\ (HasEnded(clip) \/ ~clip.enabled)

\* Bot::update, the attack clip after the restart block
RestartAttack(clip, close, timeout) ==
    IF Restarts(clip, close, timeout) THEN Rewind(SetEnabled(clip, TRUE)) ELSE clip

\* Bot::update, the cooldown is armed once the clip has ended, then runs down
Cooldown(timeout, clip, dt) ==
    (IF timeout < 0 /\ HasEnded(clip) THEN AttackCooldown ELSE timeout) - dt

\* Bot::update, a ShootWeapon message is sent for the weapon under the index
Shoots(close, can_aim, tgt, state, k, cw, ws) ==
    /\ ~close
    /\ can_aim
    /\ CanShoot(state, k)
    /\ tgt # NoTarget
    /\ HasCurrentWeapon(cw, ws)

\* Level::update_game_ending: actors.get(player) is called whatever the handle;
\* "invalid" is the lookup of a handle the container does not hold
UpdateGameEnding ==
    IF ~Contains(player) THEN "invalid"
    ELSE IF IsDead(actors[player].health) THEN "EndMatch"
    ELSE "none"

\* the frame of Level::update that runs Bot::update on Subject: the clock moves
\* by dt, the physics reports ground contact or not; update_game_ending closes
\* the frame
CombatUpdate(dt, look, ground, off) ==
    /\ IsBot(Subject)
    /\ elapsed + dt <= MaxTime
    /\ elapsed' = elapsed + dt
    /\ \E r \in UpdateAnswers(Subject) : BotUpdateWith(Subject, look, r)
    /\ LET health == actors[Subject].health
           position == actors[Subject].pos
           tgt == Selected(Subject)
           close == InCloseCombat(tgt, position)
           goal == MoveTarget(PlanOf(Subject), move_target)
           look_dir == LookDir(tgt, position, off)
           restoration == Restoration(health, last_health, restoration_time)
           can_aim == restoration <= 0
           moving == IsMoving(health, close, tgt, goal, position)
           walking == IsWalking(lower_body_machine)
           lower == LowerInput(moving, health)
           upper == UpperInput(moving, health, close, attack_timeout, kind, can_aim)
           popped == PopAttackEvents(AttackOnDeath(attack_animation, health), tgt)
           restarted == RestartAttack(popped, close, attack_timeout)
       IN  /\ move_target' = goal
           /\ linvel' = Velocity(health, close, tgt, goal, position, kind, linvel)
           /\ last_health' = health
           /\ restoration_time' = restoration - dt
           /\ dying_animation' = DyingOnDeath(dying_animation, health)
           /\ walk_animation' = PopWalkEvents(walking, walk_animation)
           /\ lower_body_machine' = LowerApply(lower_body_machine, lower)
           /\ upper_body_machine' = UpperApply(upper_body_machine, upper)
           /\ attack_animation' = restarted
           /\ attack_timeout' = Cooldown(attack_timeout, restarted, dt)
           /\ bot_current_weapon' = SelectWeapon(bot_current_weapon, bot_weapons)
           /\ yaw' = IF Aims(health, look_dir) THEN AimHorizontally(yaw, look_dir) ELSE yaw
           /\ pitch' = IF Aims(health, look_dir)
                       THEN AimVertically(pitch, look_dir, kind)
                       ELSE pitch
           /\ UNCHANGED <<kind, saveVars, bot_weapons, spawn_points, jumpVars, stockVars>>
           /\ last' = [op |-> "update",
                       health |-> health, before |-> last_health,
                       close |-> close,
                       position |-> position,
                       goal |-> goal,
                       waypoints |-> Len(path[Subject]),
                       velocity |-> linvel,
                       look_dir |-> look_dir,
                       lower |-> lower, upper |-> upper,
                       shoots |-> Shoots(close, can_aim, tgt, upper_body_machine, kind,
                                         SelectWeapon(bot_current_weapon, bot_weapons),
                                         bot_weapons),
                       can_aim |-> can_aim,
                       hits |-> Hits(attack_animation, tgt, close),
                       aimed |-> tgt.handle,
                       popped |-> PoppedFromAttack(attack_animation, tgt),
                       sent |-> DamageMessages(attack_animation, tgt, close, kind),
                       queued |-> [attack |-> popped.events,
                                   walk |-> PopWalkEvents(walking, walk_animation).events],
                       steps |-> IF walking THEN walk_animation.events ELSE 0,
                       airborne |-> walking /\ walk_animation.events > 0 /\ ~ground,
                       footsteps |-> Footsteps(walking, walk_animation, ground),
                       ended |-> HasEnded(attack_animation),
                       ended_at |-> IF ~HasEnded(attack_animation) THEN <<>>
                                    ELSE IF last.op = "update" /\ last.ended
                                         THEN last.ended_at
                                         ELSE <<elapsed + dt>>,
                       restarts |-> Restarts(popped, close, attack_timeout),
                       hurt_at |-> IF WasDamaged(health, last_health)
                                   THEN <<elapsed + dt>>
                                   ELSE IF last.op = "update" THEN last.hurt_at
                                        ELSE <<>>,
                       healed |-> health > last_health,
                       ending |-> UpdateGameEnding,
                       locked |-> restoration # restoration_time]

\* the engine plays the attack clip: past its hit signals, which it queues, then
\* to its end
AnimateAttack ==
    /\ attack_animation.enabled
    /\ ~HasEnded(attack_animation)
    /\ \E n \in 1..(MaxEvents - attack_animation.events) :
          attack_animation' =
             IF attack_animation.time = "start"
             THEN [attack_animation EXCEPT !.time = "played", !.events = @ + n]
             ELSE [attack_animation EXCEPT !.time = "end"]
    /\ UNCHANGED <<kind, last_health, restoration_time, attack_timeout, move_target, linvel,
                   dying_animation, walk_animation, upper_body_machine,
                   lower_body_machine>>

\* the engine plays the walk clip, which queues a step signal
AnimateWalk ==
    /\ walk_animation.events < MaxEvents
    /\ walk_animation' = [walk_animation EXCEPT !.events = @ + 1]
    /\ UNCHANGED <<kind, last_health, restoration_time, attack_timeout, move_target, linvel,
                   attack_animation, dying_animation, upper_body_machine,
                   lower_body_machine>>

\* Level::give_item, a medkit
GiveMedkit(actor) ==
    /\ Contains(actor)
    /\ actors' = [actors EXCEPT ![actor] = Heal(@, 1)]
    /\ UNCHANGED <<player, walls, target, frustum, planVars, elapsed, navmesh, weaponVars,
                   botVars, saveVars, restVars, asked>>

\* the bot Subject, of any kind, and the player on a level without walls and
\* without a navigation mesh, the bot carrying the weapons ws
CombatWith(ws) ==
    /\ actors \in [Handles -> {Free} \cup
                      [kind : {"Bot", "Player"}, pos : Cells, health : {MaxHealth}]]
    /\ \A h \in Handles :
          /\ actors[h] # Free <=> h \in {Subject, PlayerActor}
          /\ actors[h] # Free =>
                actors[h].kind = (IF h = PlayerActor THEN "Player" ELSE "Bot")
    /\ player = PlayerActor
    /\ walls = {}
    /\ target = [b \in Bots |-> NoTarget]
    /\ frustum = [b \in Bots |-> DefaultFrustum]
    /\ PlanInit
    /\ WeaponInit
    /\ navmesh = NoNavmesh
    /\ kind \in BotKinds
    /\ last_health = MaxHealth
    /\ restoration_time = 0
    /\ attack_timeout = 0
    /\ move_target = Origin
    /\ linvel = 0
    /\ attack_animation = AtRest
    /\ dying_animation = [m \in {"upper", "lower"} |-> AtRest]
    /\ walk_animation = AtRest
    /\ upper_body_machine = "idle"
    /\ lower_body_machine = "idle"
    /\ NothingSaved
    /\ bot_weapons = ws
    /\ bot_current_weapon = 0
    /\ AimInit
    /\ NoSpawnPoints
    /\ NoStock
    /\ JumpInit
    /\ last = Quiet

CombatInit == CombatWith(<<>>)

\* a frame of the level with Bot::update on Subject
FrameAt(offsets) ==
    \E dt \in Deltas, look \in Looks, ground \in BOOLEAN, off \in offsets :
       CombatUpdate(dt, look, ground, off)

\* the bodies of two actors do not share a position: a target in the bot's cell
\* lies off the bot
Frame == FrameAt({1})

\* a DamageActor message for Subject, from nobody or from the player
Hurt ==
    \E who \in {NONE, PlayerActor}, amount \in DamageAmounts :
       DamageActor(Subject, who, amount) /\ UNCHANGED last

Elsewhere ==
    UNCHANGED <<levelVars, planVars, elapsed, navmesh, weaponVars, saveVars, restVars, asked, last>>

\* the bot fighting: the player walks in and out of its reach while the engine
\* plays the attack clip
AttackNext ==
    \/ Frame
    \/ AnimateAttack /\ Elsewhere
    \/ Hurt
    \/ \E d \in Looks : MoveBody(PlayerActor, d) /\ UNCHANGED last

\* the bot that attacks is a Mutant at the origin
AttackInit == CombatInit /\ kind = "Mutant" /\ actors[Subject].pos = Origin

SpecAttack == AttackInit /\ [][AttackNext]_vars

\* a removal that waits for the locomotion machine's dying clip
CanBeRemovedLower == HasEnded(dying_animation["lower"])

\* Bot::can_be_removed
CanBeRemoved == HasEnded(dying_animation["upper"])

\* the engine plays the dying clip of machine m, which does not loop, to its end
AnimateDying(m) ==
    /\ dying_animation[m].enabled
    /\ ~HasEnded(dying_animation[m])
    /\ dying_animation' =
          [dying_animation EXCEPT
              ![m].time = IF @ = "start" THEN "played" ELSE "end"]
    /\ UNCHANGED <<kind, last_health, restoration_time, attack_timeout, move_target, linvel,
                   attack_animation, walk_animation, upper_body_machine,
                   lower_body_machine, armsVars, aimVars>>
    /\ UNCHANGED <<levelVars, planVars, elapsed, navmesh, weaponVars, saveVars, spawn_points, stockVars,
                   jumpVars, asked, last>>

\* the clock of the model has room for another frame
FrameFollows == \E dt \in Deltas : elapsed + dt <= MaxTime

\* the bot dying: damage arrives between two frames, and the engine plays the
\* dying clips
DyingNext ==
    \/ Frame
    \/ Hurt /\ FrameFollows
    \/ \E m \in {"upper", "lower"} : AnimateDying(m)

\* Level::update runs every frame and the engine advances every enabled clip
\* every frame
SpecDying ==
    /\ AttackInit
    /\ [][DyingNext]_vars
    /\ WF_vars(Frame)
    /\ \A m \in {"upper", "lower"} : WF_vars(AnimateDying(m))

\* the bot of any kind hurt and healed
HealthNext ==
    \/ Frame
    \/ Hurt
    \/ GiveMedkit(Subject) /\ UNCHANGED last

SpecHealth == CombatInit /\ [][HealthNext]_vars

\* the bot of any kind a cell from the origin, carrying a loaded weapon
ArmedInit == CombatWith(<<MaxAmmo>>) /\ actors[Subject].pos = Origin + 1

\* the armed bot: the player walks round it and hurts it
ArmedNext ==
    \/ Frame
    \/ Hurt
    \/ \E d \in Looks : MoveBody(PlayerActor, d) /\ UNCHANGED last

SpecArmed == ArmedInit /\ [][ArmedNext]_vars

\* the end of the match: the player is hurt by the level's messages and removed
\* from the level between two frames
EndingNext ==
    \/ Frame
    \/ \E amount \in DamageAmounts :
          DamageActor(PlayerActor, NONE, amount) /\ UNCHANGED last
    \/ RemoveActor(PlayerActor) /\ UNCHANGED last

SpecEnding == AttackInit /\ [][EndingNext]_vars

\* the bot walking while the engine plays the walk clip
StepsNext ==
    \/ Frame
    \/ AnimateWalk /\ Elsewhere
    \/ \E h \in {Subject, PlayerActor}, d \in Looks : MoveBody(h, d) /\ UNCHANGED last

SpecSteps == CombatInit /\ [][StepsNext]_vars

(***************************************************************************)
(* The bot's weapons.  The level gives the bot weapons and ammo and fires  *)
(* the weapons on ShootWeapon messages; Bot::update calls select_weapon.   *)
(***************************************************************************)
\* one call of Bot::select_weapon
SelectWeaponCall ==
    /\ bot_current_weapon' = SelectWeapon(bot_current_weapon, bot_weapons)
    /\ last' = [op |-> "select_weapon", before |-> bot_current_weapon]
    /\ UNCHANGED bot_weapons

\* Level::give_new_weapon: a new weapon, loaded, at the end of the list
GiveNewWeapon ==
    /\ Len(bot_weapons) < MaxWeapons
    /\ bot_weapons' = Append(bot_weapons, MaxAmmo)
    /\ last' = [op |-> "give"]
    /\ UNCHANGED bot_current_weapon

\* Level::shoot_weapon: the weapon of a ShootWeapon message spends ammo
ShootWeapon(i) ==
    /\ i < Len(bot_weapons)
    /\ bot_weapons[i + 1] > 0
    /\ bot_weapons' = [bot_weapons EXCEPT ![i + 1] = @ - 1]
    /\ last' = [op |-> "shoot"]
    /\ UNCHANGED bot_current_weapon

\* Level::give_item, ammo for the weapon of the item's kind
AddAmmo(i) ==
    /\ i < Len(bot_weapons)
    /\ bot_weapons[i + 1] < MaxAmmo
    /\ bot_weapons' = [bot_weapons EXCEPT ![i + 1] = MaxAmmo]
    /\ last' = [op |-> "ammo"]
    /\ UNCHANGED bot_current_weapon

\* the rest of the level while the bot's weapons are handled
Armoury ==
    UNCHANGED <<levelVars, planVars, elapsed, navmesh, weaponVars, botVars, saveVars,
                aimVars, spawn_points, jumpVars, stockVars, asked>>

ArmsNext ==
    \/ SelectWeaponCall /\ Armoury
    \/ GiveNewWeapon /\ Armoury
    \/ \E i \in 0..(MaxWeapons - 1) : ShootWeapon(i) /\ Armoury
    \/ \E i \in 0..(MaxWeapons - 1) : AddAmmo(i) /\ Armoury

SpecArms == Init /\ [][ArmsNext]_vars

(***************************************************************************)
(* The spawn points.  The level starts with the player and its spawn       *)
(* points, none of them used; SpawnBot messages name a spawn point by its  *)
(* index, and RemoveActor messages take the bots away again.  The pool of  *)
(* actors has room for NumBots bots.                                       *)
(***************************************************************************)
SpawnInit ==
    /\ actors = [h \in Handles |->
                    IF h = PlayerActor
                    THEN [kind |-> "Player", pos |-> Origin, health |-> MaxHealth]
                    ELSE Free]
    /\ player = PlayerActor
    /\ walls = {}
    /\ target = [b \in Bots |-> NoTarget]
    /\ frustum = [b \in Bots |-> DefaultFrustum]
    /\ PlanInit
    /\ BotInit
    /\ NothingSaved
    /\ Unarmed
    /\ AimInit
    /\ JumpInit
    /\ NoStock
    /\ WeaponInit
    /\ navmesh = NoNavmesh
    /\ spawn_points \in [1..NumSpawnPoints ->
                            [position : Cells, bot_kind : BotKinds, spawned : {FALSE}]]
    /\ last = Quiet

\* Pool::spawn: the handle the new actor gets
FreeHandle == FirstOf({h \in Bots : actors[h] = Free})

\* add_bot: Bot::new at the position, added to the actors
AddBot(position) ==
    actors' = [actors EXCEPT ![FreeHandle] =
                  [kind |-> "Bot", pos |-> position, health |-> MaxHealth]]

\* spawn_bot
SpawnBot(spawn_point_id) ==
    /\ spawn_points' = [spawn_points EXCEPT ![spawn_point_id + 1].spawned = TRUE]
    /\ AddBot(spawn_points[spawn_point_id + 1].position)

\* Level::handle_message, Message::SpawnBot: an index past the spawn points is
\* ignored
OnSpawnBot(spawn_point_id) ==
    /\ \E h \in Bots : actors[h] = Free
    /\ IF spawn_point_id < Len(spawn_points)
       THEN /\ SpawnBot(spawn_point_id)
            /\ last' = [op |-> "spawn",
                        was_spawned |-> spawn_points[spawn_point_id + 1].spawned,
                        created |-> FreeHandle]
       ELSE /\ UNCHANGED <<actors, spawn_points>>
            /\ last' = [op |-> "spawn", was_spawned |-> FALSE, created |-> NONE]
    /\ UNCHANGED <<player, walls, target, frustum, planVars, elapsed, navmesh, weaponVars,
                   botVars, saveVars, armsVars, aimVars, jumpVars, stockVars, asked>>

SpawnNext ==
    \/ \E id \in 0..NumSpawnPoints : OnSpawnBot(id)
    \/ \E b \in Bots : RemoveActor(b) /\ last' = [op |-> "remove"]

SpecSpawn == SpawnInit /\ [][SpawnNext]_vars

(***************************************************************************)
(* The level's messages.  Level::handle_message is handed messages whose   *)
(* handles may name an actor, a weapon or an item the level holds or one   *)
(* it does not hold (a free slot or NONE).  A handler that fails ends the  *)
(* program.  `last` keeps the kind of the latest message, whether one of   *)
(* its handles was absent, whether the handler failed and whether the      *)
(* actors, weapons, items or projectiles changed.                          *)
(***************************************************************************)
ActorHandles == Handles \cup {NONE}
StockHandles == Slots \cup {NONE}

\* WeaponContainer::contains, ItemContainer::contains
HoldsWeapon(w) == w \in Slots /\ weapons[w] # Free
HoldsItem(i) == i \in Slots /\ items[i] # Free

\* the program has not failed
Running == ~(last.op = "message" /\ last.failed)

Outcome(type, absent, failed) ==
    [op |-> "message", type |-> type, absent |-> absent, failed |-> failed,
     changed |-> <<actors, weapons, items, projectiles>>'
                    # <<actors, weapons, items, projectiles>>]

\* give_new_weapon, the actor being there: a weapon of the kind, owned by the
\* actor, joins the level's weapons and the actor's list.  Weapon::new is not
\* part of the sources; the weapon comes with a pack of rounds
GiveNewWeaponTo(st, actor, weapon_kind) ==
    LET weapon_handle == FirstFree(st.weapons)
    IN  [st EXCEPT !.weapons = [@ EXCEPT ![weapon_handle] =
                                   [kind |-> weapon_kind, owner |-> actor,
                                    ammo |-> ItemAmmo]],
                   !.character_weapons =
                       [@ EXCEPT ![actor] = Append(@, weapon_handle)]]

\* Level::give_item, the inner match of the weapon items
WeaponOfItem(item_kind) ==
    CASE item_kind = "Ak47" -> "Ak47"
      [] item_kind = "PlasmaGun" -> "PlasmaRifle"
      [] item_kind = "M4" -> "M4"
      [] OTHER -> "unreachable"

\* Level::give_item, the match of the ammo items
WeaponOfAmmo(item_kind) ==
    CASE item_kind = "Plasma" -> "PlasmaRifle"
      [] item_kind = "Ak47Ammo" -> "Ak47"
      [] item_kind = "M4Ammo" -> "M4"

WeaponItems == {"Ak47", "PlasmaGun", "M4", "RocketLauncher"}
AmmoItems == {"Plasma", "Ak47Ammo", "M4Ammo"}

\* the actor's weapons of a kind, as places in its list
OfKind(st, actor, weapon_kind) ==
    {i \in 1..Len(st.character_weapons[actor]) :
        st.weapons[st.character_weapons[actor][i]].kind = weapon_kind}

\* the first weapon of the kind the actor owns, the loop breaking there
FirstOfKind(st, actor, weapon_kind) ==
    st.character_weapons[actor][FirstOf(OfKind(st, actor, weapon_kind))]

\* Weapon::add_ammo
AddAmmoTo(st, weapon, amount) == [st EXCEPT !.weapons[weapon].ammo = @ + amount]

\* give_item reaches unreachable!()
GiveItemFails(actor, item_kind) ==
    item_kind \in WeaponItems /\ WeaponOfItem(item_kind) = "unreachable"

\* Level::give_item, the actor being there: the pools it leaves
GiveItemStock(actor, item_kind) ==
    IF item_kind \in WeaponItems
    THEN IF GiveItemFails(actor, item_kind) THEN Stock
         ELSE IF OfKind(Stock, actor, WeaponOfItem(item_kind)) # {}
              THEN AddAmmoTo(Stock, FirstOfKind(Stock, actor, WeaponOfItem(item_kind)),
                             ItemAmmo)
              ELSE GiveNewWeaponTo(Stock, actor, WeaponOfItem(item_kind))
    ELSE IF item_kind \in AmmoItems /\ OfKind(Stock, actor, WeaponOfAmmo(item_kind)) # {}
         THEN AddAmmoTo(Stock, FirstOfKind(Stock, actor, WeaponOfAmmo(item_kind)), ItemAmmo)
         ELSE Stock

\* the pools of the model have room for what st holds
InStock(st) ==
    \A w \in Slots : st.weapons[w] # Free => st.weapons[w].ammo <= MaxAmmo * ItemAmmo

\* Level::give_item, the actor being there
GiveItem(actor, item_kind) ==
    /\ item_kind \in WeaponItems /\ ~GiveItemFails(actor, item_kind)
          /\ OfKind(Stock, actor, WeaponOfItem(item_kind)) = {}
          => HasFree(weapons, 1)
    /\ InStock(GiveItemStock(actor, item_kind))
    /\ StockBecomes(GiveItemStock(actor, item_kind))
    /\ actors' = IF item_kind = "Medkit"
                 THEN [actors EXCEPT ![actor] = Heal(@, 1)]
                 ELSE actors

\* what no message of the level's pools touches
Beside ==
    UNCHANGED <<player, walls, target, frustum, planVars, elapsed, navmesh, weaponVars,
                botVars, saveVars, armsVars, aimVars, spawn_points, jumpVars, asked>>

\* Message::GiveNewWeapon
OnGiveNewWeapon(actor, weapon_kind) ==
    /\ Running
    /\ IF Contains(actor)
       THEN HasFree(weapons, 1) /\ StockBecomes(GiveNewWeaponTo(Stock, actor, weapon_kind))
       ELSE UNCHANGED stockVars
    /\ UNCHANGED actors
    /\ Beside
    /\ last' = Outcome("GiveNewWeapon", ~Contains(actor), FALSE)

\* Message::RemoveActor
OnRemoveActor(actor) ==
    /\ Running
    /\ IF Contains(actor)
       THEN RemoveActor(actor)
       ELSE UNCHANGED <<actors, stockVars>> /\ Beside
    /\ last' = [op |-> "message", type |-> "RemoveActor",
                absent |-> ~Contains(actor), failed |-> FALSE,
                changed |-> <<actors, weapons, items, projectiles>>'
                               # <<actors, weapons, items, projectiles>>,
                removed |-> IF Contains(actor) THEN character_weapons[actor] ELSE <<>>,
                owners |-> projectiles]

\* Message::GiveItem
OnGiveItem(actor, item_kind) ==
    /\ Running
    /\ IF Contains(actor)
       THEN GiveItem(actor, item_kind)
       ELSE UNCHANGED <<actors, stockVars>>
    /\ Beside
    /\ last' = Outcome("GiveItem", ~Contains(actor),
                       Contains(actor) /\ GiveItemFails(actor, item_kind))

\* Message::PickUpItem: Level::pickup_item plays a sound and gives the item
OnPickUpItem(actor, item) ==
    /\ Running
    /\ IF Contains(actor) /\ HoldsItem(item)
       THEN GiveItem(actor, items[item].kind)
       ELSE UNCHANGED <<actors, stockVars>>
    /\ Beside
    /\ last' = Outcome("PickUpItem", ~(Contains(actor) /\ HoldsItem(item)),
                       Contains(actor) /\ HoldsItem(item)
                          /\ GiveItemFails(actor, items[item].kind))

\* Message::ShootWeapon: Level::shoot_weapon lets a weapon it holds try to
\* shoot, which spends a round; the model follows the first round of a pack
OnShootWeapon(weapon) ==
    /\ Running
    /\ IF HoldsWeapon(weapon) /\ weapons[weapon].ammo > 0
          /\ weapons[weapon].ammo % ItemAmmo = 0
       THEN weapons' = [weapons EXCEPT ![weapon].ammo = @ - 1]
       ELSE UNCHANGED weapons
    /\ UNCHANGED <<actors, items, projectiles, character_weapons>>
    /\ Beside
    /\ last' = Outcome("ShootWeapon", ~HoldsWeapon(weapon), FALSE)

\* Message::ShowWeapon: Level::show_weapon indexes the weapons with the handle,
\* which fails for a handle they do not hold
OnShowWeapon(weapon) ==
    /\ Running
    /\ UNCHANGED <<actors, stockVars>>
    /\ Beside
    /\ last' = Outcome("ShowWeapon", ~HoldsWeapon(weapon), ~HoldsWeapon(weapon))

\* Message::DamageActor
OnDamageActor(actor, who, amount) ==
    /\ Running
    /\ IF Contains(actor) /\ (who = NONE \/ Contains(who))
       THEN DamageActor(actor, who, amount)
       ELSE UNCHANGED <<actors, stockVars>> /\ Beside
    /\ last' = Outcome("DamageActor", ~(Contains(actor) /\ (who = NONE \/ Contains(who))),
                       FALSE)

\* Message::CreateProjectile: Level::create_projectile adds a projectile of the
\* weapon that shot it
OnCreateProjectile(owner) ==
    /\ owner = NONE \/ HoldsWeapon(owner)
    /\ HasFree(projectiles, 1)
    /\ projectiles' = [projectiles EXCEPT ![FirstFree(projectiles)] = [owner |-> owner]]
    /\ UNCHANGED <<actors, weapons, items, character_weapons>>
    /\ Beside
    /\ last' = Outcome("CreateProjectile", FALSE, FALSE)

\* a level with the player at the origin and at most one item, of any kind; the
\* bots have been removed
MessagesInit ==
    /\ actors = [h \in Handles |->
                    IF h = PlayerActor
                    THEN [kind |-> "Player", pos |-> Origin, health |-> MaxHealth]
                    ELSE Free]
    /\ player = PlayerActor
    /\ walls = {}
    /\ target = [b \in Bots |-> NoTarget]
    /\ frustum = [b \in Bots |-> DefaultFrustum]
    /\ PlanInit
    /\ WeaponInit
    /\ navmesh = NoNavmesh
    /\ BotInit
    /\ NothingSaved
    /\ Unarmed
    /\ AimInit
    /\ NoSpawnPoints
    /\ JumpInit
    /\ weapons = [w \in Slots |-> Free]
    /\ items \in [Slots -> {Free} \cup [kind : ItemKinds]]
    /\ \A i \in Slots : i > 1 => items[i] = Free
    /\ projectiles = [p \in Slots |-> Free]
    /\ character_weapons = [h \in Handles |-> <<>>]
    /\ last = Quiet

\* the level draining its queue of messages
MessagesNext ==
    \/ \E actor \in ActorHandles, k \in WeaponKinds : OnGiveNewWeapon(actor, k)
    \/ \E actor \in ActorHandles : OnRemoveActor(actor)
    \/ \E actor \in ActorHandles, k \in ItemKinds : OnGiveItem(actor, k)
    \/ \E actor \in ActorHandles, item \in StockHandles : OnPickUpItem(actor, item)
    \/ \E weapon \in StockHandles : OnShootWeapon(weapon)
    \/ \E weapon \in StockHandles : OnShowWeapon(weapon)
    \/ \E actor \in ActorHandles, who \in ActorHandles, amount \in DamageAmounts :
          OnDamageActor(actor, who, amount)

SpecMessages == MessagesInit /\ [][MessagesNext]_vars

\* the weapons of the bot and of the player: they are handed out, shoot their
\* projectiles and go with their actor
StockNext ==
    \/ \E actor \in ActorHandles, k \in WeaponKinds : OnGiveNewWeapon(actor, k)
    \/ \E owner \in StockHandles : OnCreateProjectile(owner)
    \/ \E actor \in ActorHandles : OnRemoveActor(actor)

SpecStock == AttackInit /\ [][StockNext]_vars

(***************************************************************************)
(* Saving and loading.  A writing Visitor stores the regions a Visit names *)
(* and a reading Visitor hands them to a default object; a file may hold   *)
(* any kind id.  `last` keeps the bot and the spawn point that were        *)
(* written.                                                                *)
(***************************************************************************)
KindIds == -1..3
Angles == {0, 90}
SpawnPoints == [position : {Origin}, spawned : BOOLEAN, bot_kind : BotKinds]

\* Result::Ok, Result::Err
Ok(v) == [ok |-> TRUE, value |-> v]
Err == [ok |-> FALSE]

\* BotKind::id
Id(k) ==
    CASE k = "Mutant" -> 0
      [] k = "Parasite" -> 1
      [] k = "Zombie" -> 2

\* an unknown id taken for the default kind
FromIdDefaulting(id) ==
    CASE id = 0 -> Ok("Mutant")
      [] id = 1 -> Ok("Parasite")
      [] id = 2 -> Ok("Zombie")
      [] OTHER -> Ok("Mutant")

\* BotKind::from_id
FromId(id) ==
    CASE id = 0 -> Ok("Mutant")
      [] id = 1 -> Ok("Parasite")
      [] id = 2 -> Ok("Zombie")
      [] OTHER -> Err

\* the fields of the Bot under study, its smoothing angles being yaw and pitch
BotOf(y, p) ==
    [kind |-> kind,
     target |-> target[Subject],
     path |-> path[Subject],
     current_path_point |-> current_path_point[Subject],
     yaw |-> y,
     pitch |-> p,
     restoration_time |-> restoration_time,
     attack_timeout |-> attack_timeout]

\* Bot::default
DefaultBot ==
    [kind |-> "Mutant",
     target |-> NoTarget,
     path |-> NoPlan.path,
     current_path_point |-> NoPlan.current_path_point,
     yaw |-> 0,
     pitch |-> 0,
     restoration_time |-> 0,
     attack_timeout |-> 0]

\* SpawnPoint::default
DefaultSpawnPoint == [position |-> Origin, spawned |-> FALSE, bot_kind |-> "Zombie"]

\* impl Visit for Bot, writing: the regions it names
WriteBot(bot) ==
    [Kind |-> Id(bot.kind),
     Target |-> bot.target,
     RestorationTime |-> bot.restoration_time,
     Yaw |-> bot.yaw,
     Pitch |-> bot.pitch]

\* impl Visit for Bot, reading into self
ReadBot(self, region) ==
    IF FromId(region.Kind).ok
    THEN Ok([self EXCEPT !.kind = FromId(region.Kind).value,
                         !.target = region.Target,
                         !.restoration_time = region.RestorationTime,
                         !.yaw = region.Yaw,
                         !.pitch = region.Pitch])
    ELSE Err

\* impl Visit for SpawnPoint, writing
WriteSpawnPoint(sp) ==
    [Position |-> sp.position, Spawned |-> sp.spawned, BotKind |-> Id(sp.bot_kind)]

\* impl Visit for SpawnPoint, reading into self
ReadSpawnPoint(self, region) ==
    IF FromId(region.BotKind).ok
    THEN Ok([self EXCEPT !.position = region.Position,
                         !.spawned = region.Spawned,
                         !.bot_kind = FromId(region.BotKind).value])
    ELSE Err

\* impl Visit for Level, reading: the actors, then the spawn points
ReadLevel(file) ==
    LET bot == ReadBot(DefaultBot, file.Bot)
        sp == ReadSpawnPoint(DefaultSpawnPoint, file.SpawnPoint)
    IN  IF bot.ok /\ sp.ok
        THEN Ok([bot |-> bot.value, spawn_point |-> sp.value])
        ELSE Err

Unsaved ==
    UNCHANGED <<levelVars, planVars, elapsed, navmesh, weaponVars, botVars, restVars, asked>>

\* the level is written: the bot and a spawn point
Save(y, p, sp) ==
    /\ ~visitor.written
    /\ visitor' = [written |-> TRUE,
                   Bot |-> WriteBot(BotOf(y, p)),
                   SpawnPoint |-> WriteSpawnPoint(sp)]
    /\ last' = [op |-> "write", bot |-> BotOf(y, p), spawn_point |-> sp]
    /\ UNCHANGED restored
    /\ Unsaved

\* a file that holds kind id `id` for the bot or for the spawn point
Tamper(region, id) ==
    /\ visitor.written
    /\ last.op = "write"
    /\ visitor' = IF region = "Bot"
                  THEN [visitor EXCEPT !.Bot.Kind = id]
                  ELSE [visitor EXCEPT !.SpawnPoint.BotKind = id]
    /\ last' = [last EXCEPT !.op = IF visitor' = visitor THEN "write" ELSE "tamper"]
    /\ UNCHANGED restored
    /\ Unsaved

\* the level is read back
Load ==
    /\ visitor.written
    /\ last.op \in {"write", "tamper"}
    /\ restored' = ReadLevel(visitor)
    /\ last' = [last EXCEPT !.op = IF last.op = "write" THEN "read" ELSE "read_tampered"]
    /\ UNCHANGED visitor
    /\ Unsaved

\* a bot in the middle of a fight, nothing written yet
SaveInit ==
    /\ actors = [h \in Handles |->
                    CASE h = Subject -> [kind |-> "Bot", pos |-> Origin, health |-> MaxHealth]
                      [] h = PlayerActor ->
                            [kind |-> "Player", pos |-> Origin, health |-> MaxHealth]
                      [] OTHER -> Free]
    /\ player = PlayerActor
    /\ walls = {}
    /\ target \in [Bots -> {NoTarget} \cup [handle : {PlayerActor}, position : Cells]]
    /\ \A b \in Bots \ {Subject} : target[b] = NoTarget
    /\ frustum = [b \in Bots |-> DefaultFrustum]
    /\ path \in [Bots -> {<<>>} \cup {[i \in 1..n |-> i - 1] : n \in 1..(MaxPos + 1)}]
    /\ \A b \in Bots \ {Subject} : path[b] = NoPlan.path
    /\ current_path_point \in [Bots -> 0..MaxPos]
    /\ \A b \in Bots : current_path_point[b] < Max(Len(path[b]), 1)
    /\ \A b \in Bots \ {Subject} : current_path_point[b] = NoPlan.current_path_point
    /\ last_path_rebuild_time = [b \in Bots |-> NoPlan.last_path_rebuild_time]
    /\ elapsed = 0
    /\ asked = <<>>
    /\ WeaponInit
    /\ navmesh = NoNavmesh
    /\ kind \in BotKinds
    /\ last_health = MaxHealth
    /\ restoration_time \in {0} \cup {RestorationTime - dt : dt \in Deltas}
    /\ attack_timeout \in {0} \cup {AttackCooldown - dt : dt \in Deltas}
    /\ move_target = Origin
    /\ linvel = 0
    /\ attack_animation = AtRest
    /\ dying_animation = [m \in {"upper", "lower"} |-> AtRest]
    /\ walk_animation = AtRest
    /\ upper_body_machine = "idle"
    /\ lower_body_machine = "idle"
    /\ NothingSaved
    /\ Unarmed
    /\ AimInit
    /\ NoSpawnPoints
    /\ NoStock
    /\ JumpInit
    /\ last = Quiet

SaveNext ==
    \/ \E y \in Angles, p \in Angles, sp \in SpawnPoints : Save(y, p, sp)
    \/ \E region \in {"Bot", "SpawnPoint"}, id \in KindIds : Tamper(region, id)
    \/ Load

SpecSave == SaveInit /\ [][SaveNext]_vars

(***************************************************************************)
(* What the claims speak of, stated on the level's state.                  *)
(***************************************************************************)
WallBetween(p, q) == \E w \in walls : Min(p, q) <= w /\ w < Max(p, q)

\* the held target is a candidate of the list with health > 0
HoldsLive(b, held) ==
    /\ held # NoTarget
    /\ Contains(held.handle)
    /\ actors[held.handle].health > 0

\* the candidates that are not the bot, lie in the frustum and are not occluded
Eligible(b, view) ==
    {h \in Handles \ {b} :
        /\ Contains(h)
        /\ IsContainsPoint(view, actors[h].pos)
        /\ ~WallBetween(actors[h].pos, actors[b].pos)}

AsTarget(h) == [handle |-> h, position |-> actors[h].pos]

(***************************************************************************)
(* The approach: a live Mutant (walk_speed 0.7) holds the player as its    *)
(* target two cells away on a level without walls, with or without a       *)
(* navigation mesh.  Frames alternate with physics steps, which carry the  *)
(* bot's body a cell along its velocity.                                   *)
(***************************************************************************)
ApproachInit ==
    /\ actors \in [Handles -> {Free} \cup
                      [kind : {"Bot", "Player"}, pos : Cells, health : {MaxHealth}]]
    /\ \A h \in Handles :
          /\ actors[h] # Free <=> h \in {Subject, PlayerActor}
          /\ actors[h] # Free =>
                actors[h].kind = (IF h = PlayerActor THEN "Player" ELSE "Bot")
    /\ SqrDistance(actors[Subject].pos, actors[PlayerActor].pos) = 2 * 2
    /\ player = PlayerActor
    /\ walls = {}
    /\ target = [b \in Bots |-> IF b = Subject THEN AsTarget(PlayerActor) ELSE NoTarget]
    /\ frustum = [b \in Bots |-> DefaultFrustum]
    /\ PlanInit
    /\ WeaponInit
    /\ navmesh \in NavMaps
    /\ BotInit
    /\ NothingSaved
    /\ Unarmed
    /\ AimInit
    /\ NoSpawnPoints
    /\ NoStock
    /\ JumpInit
    /\ last = Quiet

\* the physics step: the body moves along its linear velocity
StepBody ==
    /\ IsBot(Subject)
    /\ linvel # 0
    /\ actors[Subject].pos + Sign(linvel) \in Cells
    /\ actors' = [actors EXCEPT ![Subject].pos = @ + Sign(linvel)]
    /\ last' = [op |-> "step"]
    /\ UNCHANGED <<player, walls, target, frustum, planVars, elapsed, navmesh, weaponVars,
                   botVars, saveVars, restVars, asked>>

ApproachNext ==
    \/ FrameAt(Offsets)
    \/ StepBody

SpecApproach == ApproachInit /\ [][ApproachNext]_vars

\* C1: a held target that is in the candidate list with health > 0 is kept by
\* select_target, only its cached position being refreshed, whatever the other
\* candidates are
C1_StickyTarget ==
    [][\A b \in Bots :
          (BotUpdate(b) /\ HoldsLive(b, target[b]))
             => target'[b] = AsTarget(target[b].handle)]_vars

\* C2: when the target held at the start of select_target is not valid (none held,
\* or a held actor other than the bot that is absent from the candidate list or has
\* health <= 0), the target after the call is the nearest candidate that is not the
\* bot, is inside the frustum and is not occluded, or no target at all when no
\* candidate qualifies
C2_NearestOrNone ==
    [][\A b \in Bots :
          (BotUpdate(b) /\ ~HoldsLive(b, target[b]) /\ target[b].handle # b)
             => IF Eligible(b, frustum[b]) = {}
                THEN target'[b] = NoTarget
                ELSE \E h \in Eligible(b, frustum[b]) :
                        /\ target'[b] = AsTarget(h)
                        /\ \A k \in Eligible(b, frustum[b]) :
                              SqrDistance(actors[b].pos, actors[h].pos)
                                 <= SqrDistance(actors[b].pos, actors[k].pos)]_vars

\* C3: a target that select_target newly makes the bot's target lies inside the
\* frustum the bot had when the call began
C3_NeverOutsideFrustum ==
    last.op = "select" =>
        LET b == last.bot
        IN  (target[b] # last.held /\ ~(HoldsLive(b, last.held) /\ last.held.handle # b))
               => /\ Contains(target[b].handle)
                  /\ target[b] = AsTarget(target[b].handle)
                  /\ IsContainsPoint(last.view, target[b].position)

\* a nearer, unoccluded candidate outside the frustum was passed over for a farther
\* one inside it
C3_Witness ==
    /\ last.op = "select"
    /\ target[last.bot] # last.held
    /\ ~HoldsLive(last.bot, last.held)
    /\ \E c \in Handles \ {last.bot} :
          /\ Contains(c)
          /\ actors[c].pos # actors[last.bot].pos
          /\ ~IsContainsPoint(last.view, actors[c].pos)
          /\ ~WallBetween(actors[c].pos, actors[last.bot].pos)
          /\ SqrDistance(actors[last.bot].pos, actors[c].pos)
                < SqrDistance(actors[last.bot].pos, target[last.bot].position)

\* C4: no bot's target refers to an actor that has been removed from the level
C4_TargetClearedOnRemoval ==
    /\ \A b \in Bots : IsBot(b) /\ target[b] # NoTarget => Contains(target[b].handle)
    /\ last.op = "remove" => \A b \in Bots : target[b].handle # last.actor

\* an actor that a surviving bot held as its target has just been removed
C4_Witness ==
    /\ last.op = "remove"
    /\ \E b \in last.holders : IsBot(b) /\ target[b] = NoTarget

\* C5: two re-plan queries of a bot are at least 1.0 s of simulated time apart,
\* whatever the queries answer, and no query is made while the bot has no target
C5_ReplanSpacing ==
    (last.op = "update" /\ last.queries)
       => /\ last.tgt # NoTarget
          /\ last.asked # <<>> => elapsed - last.asked[1] >= RebuildInterval

\* C5, amended: a re-plan query is made only when 1.0 s has passed since the last
\* successful re-plan, and never while the bot has no target
C5_ReplanAfterSuccess ==
    (last.op = "update" /\ last.queries)
       => /\ last.tgt # NoTarget
          /\ elapsed - last.start.last_path_rebuild_time >= RebuildInterval

\* a re-plan is queried again less than 1.0 s after a query that failed
C5_Witness ==
    /\ last.op = "update"
    /\ last.queries
    /\ last.asked # <<>>
    /\ elapsed - last.asked[1] < RebuildInterval
    /\ last.start.last_path_rebuild_time # NeverRebuilt

\* C6: the path is empty or the cursor is an index into it
C6_CursorInPath ==
    \A b \in Bots :
       Len(path[b]) = 0 \/ current_path_point[b] <= Len(path[b]) - 1

\* an update found the bot at the last waypoint of a path of several, the cursor
\* on it
C6_Witness ==
    /\ last.op = "update"
    /\ Len(path[last.bot]) >= 2
    /\ current_path_point[last.bot] = Len(path[last.bot]) - 1
    /\ last.start.current_path_point = Len(path[last.bot]) - 1
    /\ path[last.bot][Len(path[last.bot])] = actors[last.bot].pos

\* C7: the cursor never decreases from one update to the next
C7_CursorNeverDecreases ==
    last.op = "update" => current_path_point[last.bot] >= last.start.current_path_point

\* C7, amended: the cursor does not decrease in an update whose re-plan does not
\* get as far as the path query, and is 0 after one that does
C7_CursorDecreasesOnlyOnReplan ==
    last.op = "update"
       => IF last.reaches
          THEN current_path_point[last.bot] = 0
          ELSE current_path_point[last.bot] >= last.start.current_path_point

\* an update without a re-plan stepped the cursor from the last but one waypoint
\* to the last
C7_Witness ==
    /\ last.op = "update"
    /\ ~last.reaches
    /\ current_path_point[last.bot] = last.start.current_path_point + 1
    /\ current_path_point[last.bot] = Len(path[last.bot]) - 1

\* C8: a re-plan whose nearest-vertex query or path query fails leaves the path,
\* the cursor and the re-plan timestamp as they were before rebuild_path
C8_FailedReplanKeepsPlan ==
    (last.op = "update" /\ last.queries /\ ~(last.reaches /\ last.ok))
       => PlanOf(last.bot) = last.before

\* the last step was a step of the player
PlayerStep == last.op \in {"update", "input", "animate"} \cup Buttons

\* C9: the weapon index changes only in an update that pops a grab signal while a
\* direction is pending, that signal resets the direction, a request alone never
\* changes the index, and a pending direction stays pending until a grab signal is
\* popped
C9_SwitchOnGrabOnly ==
    PlayerStep
       => /\ current_weapon # last.current_weapon
                => last.popped /\ last.weapon_change_direction # "None"
          /\ last.popped => weapon_change_direction = "None"
          /\ (last.weapon_change_direction # "None" /\ ~last.popped)
                => weapon_change_direction # "None"
          /\ (last.weapon_change_direction # "None" /\ last.op \in {"update", "animate"}
                /\ ~last.popped)
                => weapon_change_direction = last.weapon_change_direction

\* an update popped a grab signal with Previous pending and stepped the index back
C9_Witness ==
    /\ last.op = "update"
    /\ last.popped
    /\ last.weapon_change_direction = "Previous"
    /\ current_weapon = last.current_weapon - 1
    /\ weapon_change_direction = "None"

\* C10: a prev-weapon press at index 0 and a next-weapon press at the last index
\* leave the pending direction alone, any other press sets it to Previous or Next;
\* with three weapons and index 0, a Next request and a grab signal give index 1
C10_SwitchGuards ==
    /\ last.op = "prev_weapon"
          => weapon_change_direction =
                (IF last.current_weapon = 0 THEN last.weapon_change_direction
                 ELSE "Previous")
    /\ last.op = "next_weapon"
          => weapon_change_direction =
                (IF last.current_weapon = weapons_len - 1
                 THEN last.weapon_change_direction
                 ELSE "Next")
    /\ (last.op = "update" /\ last.popped /\ last.weapon_change_direction = "Next"
          /\ last.current_weapon = 0 /\ weapons_len = Len(WeaponsToGive))
          => current_weapon = 1

\* a next-weapon press at the last index while Previous was pending left Previous
\* pending
C10_Witness ==
    /\ last.op = "next_weapon"
    /\ last.current_weapon = weapons_len - 1
    /\ last.weapon_change_direction = "Previous"
    /\ weapon_change_direction = "Previous"
C12_DeathIsTerminal ==
    [][upper_body_machine = "dying" => upper_body_machine' = "dying"]_vars

\* an apply on the death state with the dead input false, after a medkit
C12_Witness ==
    /\ last.op = "update"
    /\ last.before <= 0
    /\ ~last.upper.dead
    /\ upper_body_machine = "dying"

(***************************************************************************)
(* C14: a Bot::update sends a footstep PlaySound message only if the bot   *)
(* has ground contact on that tick; step signals it pops while the bot is  *)
(* airborne produce no message.                                            *)
(***************************************************************************)
C14_FootstepsOnGroundOnly ==
    last.op = "update" =>
       /\ last.footsteps > 0 => ~last.airborne
       /\ last.airborne => last.steps > 0 /\ last.footsteps = 0
       /\ last.footsteps \in {0, last.steps}

\* step signals popped by a walking bot in the air
C14_Witness ==
    /\ last.op = "update"
    /\ last.airborne
    /\ last.steps = MaxEvents
    /\ last.footsteps = 0

(***************************************************************************)
(* C16: from_id(k.id()) = k for every kind k; a file whose kind id is not  *)
(* 0, 1 or 2, for the bot or for the spawn point, makes the load fail; a   *)
(* load that succeeds gives the bot and the spawn point the kinds whose    *)
(* ids the file holds, never another kind.                                 *)
(***************************************************************************)
C16_UnknownKindFailsLoad ==
    /\ \A k \in BotKinds : FromId(Id(k)) = Ok(k)
    /\ last.op \in {"read", "read_tampered"} =>
          /\ visitor.Bot.Kind \notin {Id(k) : k \in BotKinds} => ~restored.ok
          /\ visitor.SpawnPoint.BotKind \notin {Id(k) : k \in BotKinds} => ~restored.ok
          /\ restored.ok =>
                /\ Id(restored.value.bot.kind) = visitor.Bot.Kind
                /\ Id(restored.value.spawn_point.bot_kind) = visitor.SpawnPoint.BotKind

\* a load that failed on the unknown kind id of a spawn point
C16_Witness ==
    /\ last.op = "read_tampered"
    /\ visitor.Bot.Kind \in {Id(k) : k \in BotKinds}
    /\ visitor.SpawnPoint.BotKind \notin {Id(k) : k \in BotKinds}
    /\ ~restored.ok

(***************************************************************************)
(* C17: a bot written through Visit and read back has the kind, target,    *)
(* path, current_path_point, yaw, pitch, restoration timer and attack      *)
(* cooldown timer it was written with.                                     *)
(***************************************************************************)
C17_RoundTrip ==
    last.op = "read" =>
       /\ restored.ok
       /\ restored.value.bot = last.bot

(***************************************************************************)
(* C18: the attack clip is not started again until 0.3 s after the tick    *)
(* that first found it ended, also while the bot stays in close combat.    *)
(***************************************************************************)
C18_CooldownBeforeRestart ==
    last.op = "update" /\ last.ended /\ last.restarts
       => elapsed - last.ended_at[1] >= AttackCooldown

(***************************************************************************)
(* C19: at the end of every Bot::update that finds the bot dead, the dying *)
(* clips of both machines are enabled and the attack clip is disabled and  *)
(* has not been started again, also when the target is within close combat *)
(* range.  Stated for a bot whose target is another actor.                 *)
(***************************************************************************)
C19_DeathClips ==
    last.op = "update" /\ IsDead(last.health) /\ target[Subject].handle # Subject
       => /\ dying_animation["upper"].enabled
          /\ dying_animation["lower"].enabled
          /\ ~attack_animation.enabled
          /\ ~last.restarts

(***************************************************************************)
(* C20: from a tick that finds the bot's health lower than the tick before *)
(* until 0.8 s later, the aim input of the action machine is false; a tick *)
(* that finds the health higher, or the same, does not start the lockout.  *)
(***************************************************************************)
C20_DamageLockout ==
    last.op = "update" =>
       /\ last.hurt_at # <<>> /\ elapsed - last.hurt_at[1] < RestorationTime
             => ~last.upper.aim
       /\ last.health < last.before => last.locked
       /\ last.health >= last.before => ~last.locked

\* a tick inside the lockout, after the one that found the damage
C20_Witness ==
    /\ last.op = "update"
    /\ last.hurt_at # <<>>
    /\ last.hurt_at[1] < elapsed
    /\ elapsed - last.hurt_at[1] < RestorationTime
    /\ ~last.locked
    /\ ~last.upper.aim

C21_OneMessagePerHit ==
    last.op = "update" =>
       /\ last.close => Len(last.sent) = last.popped
       /\ ~last.close => Len(last.sent) = 0
       /\ \A i \in 1..Len(last.sent) :
             /\ last.sent[i].actor = last.aimed
             /\ last.sent[i].amount = GetDefinition(kind).attack_damage

\* two hit signals popped in close combat, two messages for the player
C21_Witness ==
    /\ last.op = "update"
    /\ last.close
    /\ last.popped = 2
    /\ Len(last.sent) = 2
    /\ last.sent[1].actor = PlayerActor
    /\ last.sent[2].actor = PlayerActor

(***************************************************************************)
(* C22: at the end of every Bot::update the signal queues of the attack    *)
(* clip and of the walk clip are empty, so that no signal is delivered in  *)
(* a later tick than the one it was fired in.                              *)
(***************************************************************************)
C22_QueuesDrained ==
    last.op = "update" =>
       /\ last.queued.attack = 0
       /\ last.queued.walk = 0

(***************************************************************************)
(* C23: a Bot::update that finds the bot alive, out of close combat and    *)
(* with a target sets the horizontal velocity to walk_speed times the unit *)
(* direction to the waypoint; every other update sets it to zero.  Read    *)
(* with no direction giving no velocity.                                   *)
(***************************************************************************)
C23_MovementGating ==
    last.op = "update" =>
       linvel = IF ~IsDead(last.health) /\ ~last.close /\ last.aimed # NONE
                THEN Sign(last.goal - last.position) * GetDefinition(kind).walk_speed
                ELSE 0

(***************************************************************************)
(* C23, amended: as above while move_target differs from the bot's         *)
(* position; an update that finds the bot at move_target, alive, out of    *)
(* close combat and with a target leaves the velocity as it was.           *)
(***************************************************************************)
C23_MovementGatingOrKept ==
    last.op = "update" =>
       linvel = IF ~IsDead(last.health) /\ ~last.close /\ last.aimed # NONE
                THEN IF last.goal # last.position
                     THEN Sign(last.goal - last.position)
                             * GetDefinition(kind).walk_speed
                     ELSE last.velocity
                ELSE 0

\* the bot has walked to move_target, short of its target, and keeps its velocity
C23_Witness ==
    /\ last.op = "update"
    /\ ~IsDead(last.health)
    /\ ~last.close
    /\ last.aimed = PlayerActor
    /\ last.goal = last.position
    /\ last.velocity # 0
    /\ linvel = last.velocity

(***************************************************************************)
(* C24: select_weapon moves the index of the current weapon to the lowest  *)
(* index of an owned weapon with ammo when the current weapon has none; it *)
(* leaves the index alone when the current weapon has ammo, when no owned  *)
(* weapon has ammo and when the bot has no current weapon.                 *)
(***************************************************************************)
C24_SelectWeapon ==
    last.op = "select_weapon" =>
       LET loaded == {i \in 0..(Len(bot_weapons) - 1) : bot_weapons[i + 1] > 0}
       IN  IF /\ last.before < Len(bot_weapons)
              /\ bot_weapons[last.before + 1] = 0
              /\ loaded # {}
           THEN /\ bot_current_weapon \in loaded
                /\ \A i \in loaded : bot_current_weapon <= i
           ELSE bot_current_weapon = last.before

\* the switch from an empty weapon past another empty one, with two loaded behind
C24_Witness ==
    /\ last.op = "select_weapon"
    /\ Len(bot_weapons) = 4
    /\ last.before = 0
    /\ bot_weapons[1] = 0
    /\ bot_weapons[2] = 0
    /\ bot_weapons[3] > 0
    /\ bot_weapons[4] > 0
    /\ bot_current_weapon = 2

(***************************************************************************)
(* C25: a Bot::update that finds the target at the very position of the    *)
(* bot takes no aim step and leaves yaw and pitch as they were; one that   *)
(* finds move_target at the position of the bot writes no velocity toward  *)
(* it and passes walk = false to both machines.                            *)
(***************************************************************************)
C25_NoDirectionSkipped ==
    /\ [][\A dt \in Deltas, look \in Looks, ground \in BOOLEAN :
            CombatUpdate(dt, look, ground, 0)
               /\ LookDir(Selected(Subject), actors[Subject].pos, 0) = <<0, 0>>
               => yaw' = yaw /\ pitch' = pitch]_vars
    /\ [](last.op = "update" /\ last.goal = last.position
             => /\ linvel \in {0, last.velocity}
                /\ ~last.lower.walk
                /\ ~last.upper.walk)

\* the live bot has turned to its target, walked up to it and stands where it is
C25_Witness ==
    /\ last.op = "update"
    /\ ~IsDead(last.health)
    /\ last.aimed = PlayerActor
    /\ last.look_dir = <<0, 0>>
    /\ last.goal = last.position
    /\ yaw.angle # 0

(***************************************************************************)
(* C26: the spawned flag of a spawn point stays set once it is set, and a  *)
(* SpawnBot message for a spawn point whose flag is set creates no bot.    *)
(***************************************************************************)
C26_SpawnedOnce ==
    /\ [][\A i \in 1..NumSpawnPoints :
            spawn_points[i].spawned => spawn_points'[i].spawned]_vars
    /\ [](last.op = "spawn" /\ last.was_spawned => last.created = NONE)

(***************************************************************************)
(* C27: a jump signal popped from the player's jump clip gives the body    *)
(* the jump impulse only if the locomotion machine is then in the          *)
(* idle-to-jump or walk-to-jump transition or in the jump state; popped in *)
(* any other state it is dropped and the vertical velocity is left as the  *)
(* physics reported it.                                                    *)
(***************************************************************************)
C27_JumpOnlyWhileJumping ==
    last.op = "player" =>
       IF /\ last.popped > 0
          /\ \/ last.machine.transition \in {"idle_to_jump", "walk_to_jump"}
             \/ last.machine.state = "jump"
       THEN linvel_y = JumpImpulse
       ELSE linvel_y = last.before

\* a jump signal popped while the player falls, and dropped
C27_Witness ==
    /\ last.op = "player"
    /\ last.popped > 0
    /\ last.machine = [state |-> "fall", transition |-> "none"]
    /\ last.before = -10
    /\ linvel_y = -10
    /\ jump_animation.events = 0

C29_NeverOwnTarget ==
    /\ target[Subject].handle # Subject
    /\ last.op = "update" =>
          \A i \in 1..Len(last.sent) : last.sent[i].actor # Subject

(***************************************************************************)
(* C30: a Bot::update that finds the bot's health at or below 0 sends no   *)
(* DamageActor message, also with hit signals queued on the attack clip    *)
(* and the target in close combat range.                                   *)
(***************************************************************************)
C30_DeadBotDoesNotHit ==
    last.op = "update" /\ IsDead(last.health) => Len(last.sent) = 0

(***************************************************************************)
(* C31: a Bot::update that finds the bot alive, with a target and with an  *)
(* empty path (no plan has succeeded yet) does not move the bot: the       *)
(* horizontal velocity it leaves is zero.                                  *)
(***************************************************************************)
C31_NoPathNoMove ==
    last.op = "update" /\ ~IsDead(last.health) /\ last.aimed # NONE
                       /\ last.waypoints = 0
       => linvel = 0

(***************************************************************************)
(* C32: Level::update never looks the player up through a handle the       *)
(* container does not hold: once remove_actor has set Level.player to NONE *)
(* update_game_ending leaves the handle alone, so that EndMatch comes only *)
(* of a frame that finds an existing player dead.                          *)
(***************************************************************************)
C32_PlayerLookupValid ==
    last.op = "update" => last.ending # "invalid"

(***************************************************************************)
(* C35: an actor whose health is <= 0 never has positive health again,     *)
(* whatever messages the level handles, a GiveItem of a medkit included;   *)
(* so the dead input of the bot's machines, once true in a Bot::update, is *)
(* true in every later one.                                                *)
(***************************************************************************)
C35_DeadStaysDead ==
    [][/\ IsDead(actors[Subject].health) => IsDead(actors'[Subject].health)
       /\ (last.op = "update" /\ last.upper.dead /\ last'.op = "update")
             => last'.upper.dead /\ last'.lower.dead]_vars

(***************************************************************************)
(* C33: a message of Level::handle_message that names an actor, a weapon   *)
(* or an item the level does not hold (GiveNewWeapon, RemoveActor,         *)
(* GiveItem, PickUpItem, ShootWeapon, ShowWeapon, DamageActor, the `who`   *)
(* of DamageActor included) is ignored: the handler does not fail and      *)
(* leaves the actors, weapons, items and projectiles as they were.         *)
(***************************************************************************)
C33_AbsentHandlesIgnored ==
    last.op = "message" /\ last.absent => ~last.failed /\ ~last.changed

(***************************************************************************)
(* C34: give_item for an actor of the level handles every ItemKind without *)
(* failing: a medkit heals the actor; a weapon item adds 200 rounds to the *)
(* first weapon of its kind the actor owns, or gives the actor a new       *)
(* weapon of the kind if it owns none; an ammo item adds 200 rounds to the *)
(* first weapon of its kind the actor owns and does nothing if it owns     *)
(* none.                                                                   *)
(***************************************************************************)
C34_GiveItemTotal ==
    [][\A actor \in Handles, k \in ItemKinds :
          Contains(actor) /\ OnGiveItem(actor, k) =>
             /\ ~last'.failed
             /\ k = "Medkit" =>
                   /\ actors'[actor].health = Min(actors[actor].health + 1, MaxHealth)
                   /\ UNCHANGED stockVars
             /\ k \in WeaponItems \cup AmmoItems =>
                   LET wk == IF k \in AmmoItems THEN WeaponOfAmmo(k) ELSE WeaponOfItem(k)
                       owned == OfKind(Stock, actor, wk)
                   IN  /\ UNCHANGED actors
                       /\ owned # {} =>
                             weapons' = [weapons EXCEPT
                                            ![FirstOfKind(Stock, actor, wk)].ammo =
                                                @ + ItemAmmo]
                       /\ owned = {} /\ k \in AmmoItems => UNCHANGED stockVars
                       /\ owned = {} /\ k \in WeaponItems =>
                             /\ Len(character_weapons'[actor])
                                   = Len(character_weapons[actor]) + 1
                             /\ OfKind([Stock EXCEPT
                                           !.weapons = weapons',
                                           !.character_weapons = character_weapons'],
                                       actor, wk) # {}]_vars

\* the handles of a list
Range(seq) == {seq[i] : i \in DOMAIN seq}

(***************************************************************************)
(* C39: once remove_actor has removed the weapons of an actor, no          *)
(* projectile's owner refers to a weapon it freed: every projectile one of *)
(* the removed weapons owned has owner NONE, and the projectiles of other  *)
(* weapons are as they were.                                               *)
(***************************************************************************)
C39_NoOwnerFreed ==
    last.op = "message" /\ last.type = "RemoveActor" /\ ~last.absent =>
       \A p \in Slots :
          /\ projectiles[p] # Free => projectiles[p].owner \notin Range(last.removed)
          /\ last.owners[p] # Free /\ last.owners[p].owner \in Range(last.removed)
                => projectiles[p] = [owner |-> NONE]
          /\ last.owners[p] = Free \/ last.owners[p].owner \notin Range(last.removed)
                => projectiles[p] = last.owners[p]

\* an actor went with its weapon: the weapon's projectile has lost its owner,
\* the projectile of another actor's weapon has kept its own
C39_Witness ==
    /\ last.op = "message" /\ last.type = "RemoveActor" /\ ~last.absent
    /\ last.removed # <<>>
    /\ \E p, q \in Slots :
          /\ last.owners[p] # Free /\ last.owners[p].owner \in Range(last.removed)
          /\ projectiles[p] = [owner |-> NONE]
          /\ last.owners[q] # Free /\ last.owners[q].owner \notin Range(last.removed) \cup {NONE}
          /\ projectiles[q] = last.owners[q]
          /\ HoldsWeapon(projectiles[q].owner)

(***************************************************************************)
(* C36: the guard of a next-weapon request, current_weapon < weapons.len() *)
(* - 1, is evaluated without u32 underflow for every number of weapons:    *)
(* with no weapon owned a next-weapon press sets no pending direction and  *)
(* touches no clip.                                                        *)
(***************************************************************************)
C36_NoUnderflow ==
    /\ [](last.op # "overflow")
    /\ [][\A state \in ElementStates :
             weapons_len = 0 /\ ProcessInputEvent("next_weapon", state)
                => UNCHANGED <<weapon_change_direction, grab_animation,
                               put_back_animation>>]_vars

(***************************************************************************)
(* C37: put-back precedes grab.  A weapon-switch request disables and      *)
(* rewinds the grab clip and only the end signal of the put-back clip      *)
(* enables it again, so the index of the equipped weapon changes only in   *)
(* an update that found the grab clip enabled, the put-back signal having  *)
(* been popped since the request; the grab signal steps the index once, in *)
(* the direction of the last request.                                      *)
(***************************************************************************)
C37_PutBackPrecedesGrab ==
    /\ (last.op \in {"next_weapon", "prev_weapon"}
           /\ weapon_change_direction # last.weapon_change_direction)
          => ~grab_animation.enabled /\ grab_animation.time = "start"
    /\ (last.op = "update" /\ current_weapon # last.current_weapon)
          => /\ last.grab_enabled
             /\ current_weapon - last.current_weapon
                   = (IF last.weapon_change_direction = "Next" THEN 1 ELSE -1)

(***************************************************************************)
(* C38: no bot of any kind sends a ShootWeapon message: every definition   *)
(* has can_use_weapons = false, so can_shoot() is false in every state and *)
(* the aim input of the action machine is false in every Bot::update.      *)
(***************************************************************************)
C38_BotsNeverShoot ==
    /\ ~CanShoot(upper_body_machine, kind)
    /\ last.op = "update" => ~last.shoots /\ ~last.upper.aim

\* a bot with a loaded weapon, able to aim, its target in sight and out of
\* reach: it does not shoot
C38_Witness ==
    /\ last.op = "update"
    /\ ~IsDead(last.health)
    /\ last.aimed = PlayerActor
    /\ ~last.close
    /\ last.can_aim
    /\ HasCurrentWeapon(bot_current_weapon, bot_weapons)
    /\ bot_weapons[bot_current_weapon + 1] > 0
    /\ ~last.shoots

(***************************************************************************)
(* C40: a Bot::update that finds the bot dead sets the horizontal velocity *)
(* to zero, passes walk = false and dead = true to both machines and       *)
(* leaves yaw and pitch, and with them the rotation of the body, as they   *)
(* were.                                                                   *)
(***************************************************************************)
C40_DeadBotFrame ==
    /\ [](last.op = "update" /\ IsDead(last.health)
             => /\ linvel = 0
                /\ ~last.lower.walk /\ ~last.upper.walk
                /\ last.lower.dead /\ last.upper.dead)
    /\ [][\A dt \in Deltas, look \in Looks, ground \in BOOLEAN :
             CombatUpdate(dt, look, ground, 1) /\ IsDead(actors[Subject].health)
                => yaw' = yaw /\ pitch' = pitch]_vars

\* the bot was walking, turned to its target, when the target went round it and
\* it died: the update stops it and does not turn it
C40_Witness ==
    /\ last.op = "update"
    /\ IsDead(last.health)
    /\ last.velocity # 0
    /\ linvel = 0
    /\ last.aimed = PlayerActor
    /\ last.look_dir = <<-1, 0>>
    /\ yaw.angle = Atan2(<<1, 0>>)

====
